---- MODULE Spec2Model ----
\* Verification model of gRPC objects of this repository:
\*   Http2CallStream       (packages/grpc-js/.../ApiConfigSource.d.ts, lines 188-597)
\*   LoadBalancingCall     (unnamed/part_005)
\*   Server                (packages/grpc-js/src/server.ts) with
\*   Http2ServerCallStream (unnamed/part_002)
\*   ResolvingLoadBalancer (packages/grpc-js/src/resolving-load-balancer.ts)
\*   Metadata              (packages/grpc-js-xds/.../ClientConfig.ts, lines 410-671)
\*   the service config functions (packages/grpc-js/src/server.ts, lines 338-596)
\*   the grpc-timeout computation of Http2ServerCallStream.receiveMetadata
\*   InterceptingListenerImpl (packages/grpc-js/.../ApiConfigSource.d.ts, lines 131-162)
\*   CdsLoadBalancer       (packages/grpc-js/src/call.ts, lines 249-325)
\* Each object is a record whose fields carry the names of the class fields;
\* each method is an operator from object state to object state, and each
\* event-loop task (transport event, promise continuation, API call, nextTick
\* callback) is one action.
EXTENDS Integers, Sequences, FiniteSets, TLC

VARIABLES h2, lb, srv, rlb, scfg, md, dl, il, cds

vars == <<h2, lb, srv, rlb, scfg, md, dl, il, cds>>

\* ---------------------------------------------------------------------------
\* Bounds
\* ---------------------------------------------------------------------------
\* Number of messages the stream decoder yields over the life of one call.
MaxMsgs == 3
\* Largest number of whole messages decoded from one DATA chunk.
MaxChunk == 2
\* Messages the application sends on one call.
MaxSends == 2
\* Number of messages a subchannel call hands to a LoadBalancingCall.
MaxChildMsgs == 2

\* ---------------------------------------------------------------------------
\* Shared vocabulary
\* ---------------------------------------------------------------------------
NULL == "null"

\* Listener observations.
EvMetadata == [ev |-> "onReceiveMetadata", arg |-> "metadata"]
EvMessage(m) == [ev |-> "onReceiveMessage", arg |-> m]
EvStatus(code) == [ev |-> "onReceiveStatus", arg |-> code]

StatusIndices(log) == {i \in 1..Len(log) : log[i].ev = "onReceiveStatus"}
MessageIndices(log) == {i \in 1..Len(log) : log[i].ev = "onReceiveMessage"}
MetadataIndices(log) == {i \in 1..Len(log) : log[i].ev = "onReceiveMetadata"}
MessagesOf(log) == SelectSeq(log, LAMBDA e : e.ev = "onReceiveMessage")

\* ---------------------------------------------------------------------------
\* Http2CallStream
\* ---------------------------------------------------------------------------
\* The end-of-stream marker the code passes around as a `null` message.
EndOfStream == 0

\* Codes the application (or the deadline filter) cancels a call with.
CancelCodes == {"CANCELLED", "DEADLINE_EXCEEDED"}

\* :status values the transport delivers in the explored behaviours.
HttpStatusInputs == {200, 401, 503}

\* stream.rstCode values the stream closes with in the explored behaviours.
RstInputs == {"NO_ERROR", "REFUSED_STREAM", "CANCEL"}

\* What the trailers carry: a grpc-status, none, or headers on which the
\* receiveTrailers filter throws.
TrailerInputs == {"OK", "UNAUTHENTICATED", "absent", "throw"}

H2Init ==
  [ \* fields of Http2CallStream
    http2Stream |-> NULL,
    pendingRead |-> FALSE,
    pendingWrite |-> 0,
    writesClosed |-> FALSE,
    isReadFilterPending |-> FALSE,
    canPush |-> FALSE,
    readsClosed |-> FALSE,
    statusOutput |-> FALSE,
    unpushedReadMessages |-> <<>>,
    unfilteredReadMessages |-> <<>>,
    mappedStatusCode |-> "UNKNOWN",
    finalStatus |-> NULL,
    subchannel |-> NULL,
    listener |-> NULL,
    \* the subchannel the call is attached to
    callRefs |-> 0,
    disconnectListenerAdded |-> FALSE,
    \* the calls made on the subchannel, in order, and whether a stream
    \* handed to the call was closed with NGHTTP2_CANCEL
    subchannelCalls |-> <<>>,
    streamCancelled |-> FALSE,
    \* the http2 stream: events emitted so far, local close, decoder output
    streamOffered |-> FALSE,
    rstSent |-> FALSE,
    responseSeen |-> FALSE,
    endStreamFlag |-> FALSE,
    trailersSeen |-> FALSE,
    endSeen |-> FALSE,
    closeSeen |-> FALSE,
    decoded |-> 0,
    \* event loop: message held by the in-flight receiveMessage promise and
    \* the process.nextTick callback queued by outputStatus
    readFilter |-> EndOfStream,
    statusTick |-> "none",
    \* messages passed to sendMessageWithContext, the message held by the
    \* in-flight sendMessage promise (0: none), and what was given to the
    \* http2 stream while it was writable: messages, and EndOfStream for end()
    sends |-> 0,
    sendFilter |-> 0,
    streamWrites |-> <<>>,
    ticksQueued |-> 0,
    \* what the listener has observed
    observed |-> <<>>,
    \* history: first status given to endCall, first non-OK status given to
    \* endCall before delivery, status derived from the trailers
    firstEndCall |-> NULL,
    firstNonOk |-> NULL,
    trailersStatus |-> NULL,
    \* history: cancelWithStatus calls made by the application (saturating),
    \* and whether startRead was called since the last delivered message
    cancelCalls |-> 0,
    readOutstanding |-> FALSE ]

H2Delivered(s) == StatusIndices(s.observed) # {}

\* outputStatus(): lines 237-256
outputStatus(s) ==
  IF ~s.statusOutput
  THEN LET s1 == [s EXCEPT !.statusOutput = TRUE,
                           !.statusTick = "scheduled",
                           !.ticksQueued = @ + 1]
       IN IF s1.subchannel # NULL
          THEN [s1 EXCEPT !.callRefs = @ - 1,
                          !.disconnectListenerAdded = FALSE,
                          !.subchannelCalls = @ \o <<"callUnref", "removeDisconnectListener">>]
          ELSE s1
  ELSE s

\* endCall without the latch: every status passed in replaces the final status.
endCall_overwrites(s, status) ==
  LET h == [s EXCEPT
              !.firstEndCall = IF @ = NULL THEN status ELSE @,
              !.firstNonOk = IF @ = NULL /\ status # "OK" /\ ~H2Delivered(s)
                             THEN status ELSE @]
      s1 == [h EXCEPT !.finalStatus = status]
  IN IF s1.readsClosed \/ s1.finalStatus # "OK"
     THEN outputStatus(s1)
     ELSE s1

\* endCall(status): lines 263-274
endCall(s, status) ==
  LET h == [s EXCEPT
              !.firstEndCall = IF @ = NULL THEN status ELSE @,
              !.firstNonOk = IF @ = NULL /\ status # "OK" /\ ~H2Delivered(s)
                             THEN status ELSE @]
  IN IF h.finalStatus = NULL \/ h.finalStatus = "OK"
     THEN LET s1 == [h EXCEPT !.finalStatus = status]
          IN IF s1.readsClosed \/ s1.finalStatus # "OK"
             THEN outputStatus(s1)
             ELSE s1
     ELSE h

\* push(message): lines 276-292
RECURSIVE push(_, _)
push(s, message) ==
  IF message = EndOfStream
  THEN LET s1 == [s EXCEPT !.readsClosed = TRUE]
       IN IF s1.finalStatus # NULL THEN outputStatus(s1) ELSE s1
  ELSE LET s1 == [s EXCEPT !.observed = Append(@, EvMessage(message)),
                           !.readOutstanding = FALSE]
       IN IF Len(s1.unpushedReadMessages) > 0
             /\ Head(s1.unpushedReadMessages) = EndOfStream
          THEN push([s1 EXCEPT !.unpushedReadMessages = Tail(@)], EndOfStream)
          ELSE s1

\* destroyHttp2Stream(): lines 508-516
destroyHttp2Stream(s) ==
  IF s.http2Stream # NULL /\ ~s.closeSeen
  THEN [s EXCEPT !.rstSent = TRUE]
  ELSE s

\* cancelWithStatus that ends the call with CANCELLED whatever code it is given.
cancelWithStatus_fixedCode(s, status) ==
  endCall(destroyHttp2Stream(s), "CANCELLED")

\* cancelWithStatus(status, details): lines 518-521
cancelWithStatus(s, status) == endCall(destroyHttp2Stream(s), status)

\* handleFilterError(error): lines 294-296
handleFilterError(s) == cancelWithStatus(s, "INTERNAL")

\* filterReceivedMessage(framedMessage): lines 321-343
filterReceivedMessage(s, framedMessage) ==
  IF s.finalStatus # NULL
  THEN push(s, EndOfStream)
  ELSE IF framedMessage = EndOfStream
       THEN IF s.canPush
            THEN push(s, EndOfStream)
            ELSE [s EXCEPT !.unpushedReadMessages = Append(@, EndOfStream)]
       ELSE [s EXCEPT !.isReadFilterPending = TRUE,
                      !.readFilter = framedMessage]

\* handleFilteredRead without the check that the call has ended.
handleFilteredRead_noEndedCheck(s, message) ==
  LET s1 == [s EXCEPT !.isReadFilterPending = FALSE]
      s2 == IF s1.canPush
            THEN [push(s1, message) EXCEPT !.canPush = FALSE]
            ELSE [s1 EXCEPT !.unpushedReadMessages = Append(@, message)]
  IN IF Len(s2.unfilteredReadMessages) > 0
     THEN filterReceivedMessage(
            [s2 EXCEPT !.unfilteredReadMessages = Tail(@)],
            Head(s2.unfilteredReadMessages))
     ELSE s2

\* handleFilteredRead that buffers a filtered message at the front of
\* unpushedReadMessages (unshift for push).
handleFilteredRead_unshift(s, message) ==
  IF s.finalStatus # NULL
  THEN push(s, EndOfStream)
  ELSE LET s1 == [s EXCEPT !.isReadFilterPending = FALSE]
           s2 == IF s1.canPush
                 THEN [push(s1, message) EXCEPT !.canPush = FALSE]
                 ELSE [s1 EXCEPT !.unpushedReadMessages = <<message>> \o @]
       IN IF Len(s2.unfilteredReadMessages) > 0
          THEN filterReceivedMessage(
                 [s2 EXCEPT !.unfilteredReadMessages = Tail(@)],
                 Head(s2.unfilteredReadMessages))
          ELSE s2

\* handleFilteredRead(message): lines 298-319
handleFilteredRead(s, message) ==
  IF s.finalStatus # NULL
  THEN push(s, EndOfStream)
  ELSE LET s1 == [s EXCEPT !.isReadFilterPending = FALSE]
           s2 == IF s1.canPush
                 THEN [push(s1, message) EXCEPT !.canPush = FALSE]
                 ELSE [s1 EXCEPT !.unpushedReadMessages = Append(@, message)]
       IN IF Len(s2.unfilteredReadMessages) > 0
          THEN filterReceivedMessage(
                 [s2 EXCEPT !.unfilteredReadMessages = Tail(@)],
                 Head(s2.unfilteredReadMessages))
          ELSE s2

\* tryPush(messageBytes): lines 345-351
tryPush(s, messageBytes) ==
  IF s.isReadFilterPending
  THEN [s EXCEPT !.unfilteredReadMessages = Append(@, messageBytes)]
  ELSE filterReceivedMessage(s, messageBytes)

\* The switch on headers[':status']: lines 392-414
HttpStatusToCode(httpStatus) ==
  CASE httpStatus = 400 -> "INTERNAL"
    [] httpStatus = 401 -> "UNAUTHENTICATED"
    [] httpStatus = 403 -> "PERMISSION_DENIED"
    [] httpStatus = 404 -> "UNIMPLEMENTED"
    [] httpStatus \in {429, 502, 503, 504} -> "UNAVAILABLE"
    [] OTHER -> "UNKNOWN"

\* The switch on stream.rstCode in the 'close' handler: lines 457-476
RstCodeToStatus(rstCode) ==
  CASE rstCode = "REFUSED_STREAM" -> "UNAVAILABLE"
    [] rstCode = "CANCEL" -> "CANCELLED"
    [] rstCode = "ENHANCE_YOUR_CALM" -> "RESOURCE_EXHAUSTED"
    [] rstCode = "INADEQUATE_SECURITY" -> "PERMISSION_DENIED"
    [] OTHER -> "INTERNAL"

\* filterStack.receiveTrailers(status): the status filter replaces the mapped
\* code by the grpc-status trailer when one is present.
receiveTrailers(code, trailers) ==
  IF trailers = "absent" THEN code ELSE trailers

\* handleTrailers(headers): lines 353-378
handleTrailers(s, trailers) ==
  LET status == IF trailers = "throw"
                THEN "INTERNAL"
                ELSE receiveTrailers(s.mappedStatusCode, trailers)
      h == [s EXCEPT !.trailersStatus = IF @ = NULL THEN status ELSE @]
  IN endCall(h, status)

\* A task ends: a nextTick callback queued during it now waits behind the
\* kind of task that queued it ("macro": it runs next; "micro": the promise
\* continuations that are already queued run first).
EndTask(s, kind) ==
  IF s.statusTick = "scheduled" THEN [s EXCEPT !.statusTick = kind] ELSE s

TickPending(s) == s.ticksQueued > 0
\* A transport event or timer can run: the nextTick queue is empty.
MacroTaskMayRun(s) == ~TickPending(s)
\* A promise continuation can run: no nextTick callback queued by a macrotask
\* is waiting.
MicroTaskMayRun(s) == s.statusTick # "macro"
TaskMayRun(s, kind) ==
  IF kind = "macro" THEN MacroTaskMayRun(s) ELSE MicroTaskMayRun(s)
TaskKinds == {"macro", "micro"}

\* start(metadata, listener): lines 503-506
H2_start ==
  /\ h2.listener = NULL
  /\ h2' = [h2 EXCEPT !.listener = "listener"]
  /\ UNCHANGED <<lb, srv, rlb, scfg, md, dl, il, cds>>

\* The stream takes what is written to it: it is attached, not closed or
\* reset, and end() was not called on it.
StreamWritable(s) ==
  /\ s.http2Stream # NULL
  /\ ~s.closeSeen
  /\ ~s.rstSent
  /\ \A i \in 1..Len(s.streamWrites) : s.streamWrites[i] # EndOfStream

\* http2Stream.write(message, cb) and http2Stream.end(): a write after end()
\* or on a destroyed stream fails and puts nothing on the stream.
http2StreamWrite(s, message) ==
  IF StreamWritable(s) THEN [s EXCEPT !.streamWrites = Append(@, message)] ELSE s

http2StreamEnd(s) == http2StreamWrite(s, EndOfStream)

\* attachHttp2Stream that takes the stream whether or not the call has ended.
attachHttp2Stream_afterEnd(s) ==
  [s EXCEPT !.streamOffered = TRUE,
            !.http2Stream = "stream",
            !.subchannel = "subchannel",
            !.disconnectListenerAdded = TRUE,
            !.callRefs = @ + 1,
            !.subchannelCalls = @ \o <<"addDisconnectListener", "callRef">>]

\* attachHttp2Stream(stream, subchannel): lines 380-390 and 488-500
attachHttp2Stream(s) ==
  IF s.finalStatus # NULL
  THEN [s EXCEPT !.streamOffered = TRUE, !.streamCancelled = TRUE]
  ELSE LET s1 == [s EXCEPT !.streamOffered = TRUE,
                           !.http2Stream = "stream",
                           !.subchannel = "subchannel",
                           !.disconnectListenerAdded = TRUE,
                           !.callRefs = @ + 1,
                           !.subchannelCalls = @ \o <<"addDisconnectListener", "callRef">>]
           s2 == IF s1.pendingWrite # 0 THEN http2StreamWrite(s1, s1.pendingWrite) ELSE s1
       IN IF s2.writesClosed THEN http2StreamEnd(s2) ELSE s2

H2_attachHttp2Stream ==
  /\ h2.listener # NULL
  /\ ~h2.streamOffered
  /\ MacroTaskMayRun(h2)
  /\ h2' = EndTask(attachHttp2Stream(h2), "macro")
  /\ UNCHANGED <<lb, srv, rlb, scfg, md, dl, il, cds>>

StreamLive(s) == s.http2Stream # NULL /\ ~s.closeSeen

\* stream.on('response'): lines 391-442
onResponse(s, httpStatus, endStream, trailers, filterThrows) ==
  LET s1 == [s EXCEPT !.responseSeen = TRUE,
                      !.endStreamFlag = endStream,
                      !.mappedStatusCode = HttpStatusToCode(httpStatus)]
  IN IF endStream
     THEN handleTrailers(s1, trailers)
     ELSE IF filterThrows
          THEN endCall(destroyHttp2Stream(s1), "UNKNOWN")
          ELSE [s1 EXCEPT !.observed = Append(@, EvMetadata)]

H2_onResponse ==
  /\ StreamLive(h2)
  /\ ~h2.responseSeen
  /\ MacroTaskMayRun(h2)
  /\ \E httpStatus \in HttpStatusInputs, endStream \in BOOLEAN,
        trailers \in TrailerInputs, filterThrows \in BOOLEAN :
       /\ (~endStream => trailers = "absent")
       /\ (endStream => ~filterThrows)
       /\ h2' = EndTask(onResponse(h2, httpStatus, endStream, trailers,
                                   filterThrows), "macro")
  /\ UNCHANGED <<lb, srv, rlb, scfg, md, dl, il, cds>>

\* stream.on('trailers'): line 443
H2_onTrailers ==
  /\ StreamLive(h2)
  /\ h2.responseSeen
  /\ ~h2.endStreamFlag
  /\ ~h2.trailersSeen
  /\ MacroTaskMayRun(h2)
  /\ \E trailers \in TrailerInputs :
       h2' = EndTask(handleTrailers([h2 EXCEPT !.trailersSeen = TRUE],
                                    trailers), "macro")
  /\ UNCHANGED <<lb, srv, rlb, scfg, md, dl, il, cds>>

\* stream.on('data'): lines 444-450; the decoder yields the next n messages
RECURSIVE onData(_, _)
onData(s, n) ==
  IF n = 0
  THEN s
  ELSE onData(tryPush([s EXCEPT !.decoded = @ + 1], s.decoded + 1), n - 1)

H2_onData ==
  /\ StreamLive(h2)
  /\ h2.responseSeen
  /\ ~h2.endStreamFlag
  /\ ~h2.trailersSeen
  /\ ~h2.endSeen
  /\ MacroTaskMayRun(h2)
  /\ \E n \in 1..MaxChunk :
       /\ h2.decoded + n <= MaxMsgs
       /\ h2' = EndTask(onData(h2, n), "macro")
  /\ UNCHANGED <<lb, srv, rlb, scfg, md, dl, il, cds>>

\* stream.on('end'): lines 451-453
H2_onEnd ==
  /\ StreamLive(h2)
  /\ ~h2.endSeen
  /\ MacroTaskMayRun(h2)
  /\ h2' = EndTask(tryPush([h2 EXCEPT !.endSeen = TRUE], EndOfStream),
                   "macro")
  /\ UNCHANGED <<lb, srv, rlb, scfg, md, dl, il, cds>>

\* stream.on('close'): lines 454-482
onClose(s, rstCode) ==
  endCall([s EXCEPT !.closeSeen = TRUE], RstCodeToStatus(rstCode))

H2_onClose ==
  /\ StreamLive(h2)
  /\ MacroTaskMayRun(h2)
  /\ \E rstCode \in RstInputs :
       /\ (h2.rstSent => rstCode = "CANCEL")
       /\ h2' = EndTask(onClose(h2, rstCode), "macro")
  /\ UNCHANGED <<lb, srv, rlb, scfg, md, dl, il, cds>>

\* disconnectListener: lines 228-234, run by the subchannel it is added to
H2_disconnectListener ==
  /\ h2.disconnectListenerAdded
  /\ MacroTaskMayRun(h2)
  /\ h2' = EndTask(endCall(h2, "UNAVAILABLE"), "macro")
  /\ UNCHANGED <<lb, srv, rlb, scfg, md, dl, il, cds>>

\* The receiveMessage promise of lines 337-342 resolves.
H2_receiveMessageResolved ==
  /\ h2.readFilter # EndOfStream
  /\ MicroTaskMayRun(h2)
  /\ h2' = EndTask(handleFilteredRead([h2 EXCEPT !.readFilter = EndOfStream],
                                      h2.readFilter), "micro")
  /\ UNCHANGED <<lb, srv, rlb, scfg, md, dl, il, cds>>

\* The receiveMessage promise of lines 337-342 rejects.
H2_receiveMessageRejected ==
  /\ h2.readFilter # EndOfStream
  /\ MicroTaskMayRun(h2)
  /\ h2' = EndTask(handleFilterError([h2 EXCEPT !.readFilter = EndOfStream]),
                   "micro")
  /\ UNCHANGED <<lb, srv, rlb, scfg, md, dl, il, cds>>

\* startRead(): lines 551-573
startRead(s) ==
  IF s.finalStatus # NULL
  THEN push(s, EndOfStream)
  ELSE LET s1 == [s EXCEPT !.canPush = TRUE]
       IN IF s1.http2Stream = NULL
          THEN [s1 EXCEPT !.pendingRead = TRUE]
          ELSE IF Len(s1.unpushedReadMessages) > 0
               THEN [push([s1 EXCEPT !.unpushedReadMessages = Tail(@)],
                          Head(s1.unpushedReadMessages))
                       EXCEPT !.canPush = FALSE]
               ELSE s1

H2_startRead ==
  /\ h2.listener # NULL
  /\ \E kind \in TaskKinds :
       /\ TaskMayRun(h2, kind)
       /\ h2' = EndTask(startRead([h2 EXCEPT !.readOutstanding = TRUE]), kind)
  /\ UNCHANGED <<lb, srv, rlb, scfg, md, dl, il, cds>>

\* sendMessageWithContext(context, message), lines 575-589, by a single
\* writer: the message before it has left the filter and, once a stream is
\* attached, reached it.
H2_sendMessageWithContext ==
  /\ h2.listener # NULL
  /\ h2.sends < MaxSends
  /\ ~h2.writesClosed
  /\ h2.sendFilter = 0
  /\ h2.pendingWrite = 0 \/ h2.http2Stream # NULL
  /\ \E kind \in TaskKinds :
       /\ TaskMayRun(h2, kind)
       /\ h2' = EndTask([h2 EXCEPT !.sends = @ + 1, !.sendFilter = h2.sends + 1], kind)
  /\ UNCHANGED <<lb, srv, rlb, scfg, md, dl, il, cds>>

\* The continuation of filterStack.sendMessage: lines 581-588
sendMessageResolved(s) ==
  LET s1 == [s EXCEPT !.sendFilter = 0]
  IN IF s1.http2Stream = NULL
     THEN [s1 EXCEPT !.pendingWrite = s.sendFilter]
     ELSE http2StreamWrite(s1, s.sendFilter)

H2_sendMessageResolved ==
  /\ h2.sendFilter # 0
  /\ MicroTaskMayRun(h2)
  /\ h2' = EndTask(sendMessageResolved(h2), "micro")
  /\ UNCHANGED <<lb, srv, rlb, scfg, md, dl, il, cds>>

\* The sendMessage filter rejects: line 588
H2_sendMessageRejected ==
  /\ h2.sendFilter # 0
  /\ MicroTaskMayRun(h2)
  /\ h2' = EndTask(handleFilterError([h2 EXCEPT !.sendFilter = 0]), "micro")
  /\ UNCHANGED <<lb, srv, rlb, scfg, md, dl, il, cds>>

\* halfClose(): lines 591-596
halfClose(s) ==
  LET s1 == [s EXCEPT !.writesClosed = TRUE]
  IN IF s1.http2Stream # NULL THEN http2StreamEnd(s1) ELSE s1

H2_halfClose ==
  /\ h2.listener # NULL
  /\ ~h2.writesClosed
  /\ \E kind \in TaskKinds :
       /\ TaskMayRun(h2, kind)
       /\ h2' = EndTask(halfClose(h2), kind)
  /\ UNCHANGED <<lb, srv, rlb, scfg, md, dl, il, cds>>

\* One call of cancelWithStatus(status, ...) by the application.
H2_cancelStep(status) ==
  /\ h2.listener # NULL
  /\ \E kind \in TaskKinds :
       /\ TaskMayRun(h2, kind)
       /\ h2' = EndTask(cancelWithStatus(
                          [h2 EXCEPT !.cancelCalls = IF @ < 2 THEN @ + 1 ELSE @],
                          status), kind)

H2_cancelWithStatus ==
  /\ \E status \in CancelCodes : H2_cancelStep(status)
  /\ UNCHANGED <<lb, srv, rlb, scfg, md, dl, il, cds>>

\* The process.nextTick callback of lines 248-250.
H2_onReceiveStatus ==
  /\ TickPending(h2)
  /\ h2' = [h2 EXCEPT !.ticksQueued = @ - 1,
                      !.statusTick = IF h2.ticksQueued = 1 THEN "none" ELSE @,
                      !.observed = Append(@, EvStatus(h2.finalStatus))]
  /\ UNCHANGED <<lb, srv, rlb, scfg, md, dl, il, cds>>

NextH2 ==
  \/ H2_start
  \/ H2_startRead
  \/ H2_cancelWithStatus
  \/ H2_receiveMessageResolved
  \/ H2_receiveMessageRejected
  \/ H2_onReceiveStatus
  \/ H2_attachHttp2Stream
  \/ H2_onResponse
  \/ H2_onTrailers
  \/ H2_onData
  \/ H2_onEnd
  \/ H2_onClose
  \/ H2_disconnectListener

\* The sending side of a call, with the events that end it.
NextH2Write ==
  \/ H2_start
  \/ H2_sendMessageWithContext
  \/ H2_sendMessageResolved
  \/ H2_sendMessageRejected
  \/ H2_halfClose
  \/ H2_cancelWithStatus
  \/ H2_attachHttp2Stream
  \/ H2_onClose
  \/ H2_disconnectListener
  \/ H2_onReceiveStatus

\* ---------------------------------------------------------------------------
\* LoadBalancingCall
\* ---------------------------------------------------------------------------
\* Statuses a picker attaches to a DROP or TRANSIENT_FAILURE pick.
PickStatuses == {"UNAVAILABLE", "PERMISSION_DENIED"}

CompletePick ==
  [pickResultType |-> "COMPLETE", status |-> NULL, subchannel |-> "subchannel"]

\* picker.ts PickResult, as the channel's doPick returns it.
PickResults ==
  {CompletePick,
   [pickResultType |-> "QUEUE", status |-> NULL, subchannel |-> NULL]}
  \cup [pickResultType : {"DROP", "TRANSIENT_FAILURE"},
        status : PickStatuses, subchannel : {NULL}]

\* No pick result, and a Metadata reference that is null.
NoPick == [pickResultType |-> "NONE", status |-> NULL, subchannel |-> NULL]
NullMetadata == [isNull |-> TRUE, waitForReady |-> FALSE, authorization |-> 0]

\* Connectivity states a picked subchannel is found in when the credentials
\* metadata arrives.
SubchannelStates == {"READY", "IDLE", "TRANSIENT_FAILURE"}

\* Number of `authorization` values in the call's metadata and in the metadata
\* a credentials plugin returns.
AuthorizationCounts == {0, 1}

\* Codes a credentials plugin error carries ("none": no numeric code).
PluginErrorCodes == {"none", "UNAUTHENTICATED"}

\* Codes a rejected filter promise carries.
FilterErrorCodes == {"INTERNAL", "RESOURCE_EXHAUSTED"}

\* Statuses a subchannel call ends with.
ChildStatuses == {"OK", "UNAVAILABLE", "CANCELLED"}

LBInit ==
  [ \* fields of LoadBalancingCall
    child |-> NULL,
    readPending |-> FALSE,
    pendingMessage |-> 0,
    pendingHalfClose |-> FALSE,
    writeFilterPending |-> FALSE,
    ended |-> FALSE,
    metadata |-> NullMetadata,
    listener |-> NULL,
    onCallEnded |-> NULL,
    \* promises in flight: sendMetadata filter (its metadata), credentials
    \* generateMetadata (the pick it belongs to), receiveMessage filters
    sendMetadataFilter |-> NullMetadata,
    credsPending |-> NoPick,
    readFilters |-> {},
    \* messages passed to sendMessageWithContext, the message held by the
    \* in-flight sendMessage promise (0: none), whether halfClose was called
    sends |-> 0,
    sendFilter |-> 0,
    halfCloseCalled |-> FALSE,
    \* the channel: the call is on its pick queue
    queued |-> FALSE,
    \* the subchannel call behind `child`
    childReadRequested |-> FALSE,
    childCancelled |-> FALSE,
    childMetadataSent |-> FALSE,
    childMsgs |-> 0,
    childStatusSent |-> FALSE,
    \* calls made on `child`: the messages of sendMessageWithContext, and
    \* EndOfStream for halfClose
    childCalls |-> <<>>,
    \* what the listener has observed, and the progress of its status
    observed |-> <<>>,
    progress |-> NULL,
    \* history
    lastPick |-> NoPick,
    \* the connectivity state the task found the picked subchannel in
    subchannelState |-> NULL,
    createCalls |-> 0,
    onCallStartedCalls |-> 0,
    onCallEndedCalls |-> 0,
    authorizationConflict |-> FALSE,
    cancelledWhileSuspended |-> FALSE,
    cancelCalls |-> 0 ]

\* outputStatus(status, progress): lines 86-95; the filter stack's
\* receiveTrailers leaves the code as it is (BaseFilter, part_003 lines 53-55)
lbOutputStatus(s, status, progress) ==
  IF ~s.ended
  THEN [s EXCEPT !.ended = TRUE,
                 !.observed = IF s.listener # NULL
                              THEN Append(@, EvStatus(status)) ELSE @,
                 !.progress = IF s.listener # NULL THEN progress ELSE @,
                 !.onCallEndedCalls = IF s.onCallEnded # NULL
                                      THEN @ + 1 ELSE @]
  ELSE s

\* doPick that ends the call on TRANSIENT_FAILURE without looking at
\* waitForReady.
lbDoPick_ignoresWaitForReady(s, pickResult) ==
  IF s.ended
  THEN s
  ELSE LET s1 == [s EXCEPT !.lastPick = pickResult]
       IN CASE pickResult.pickResultType = "COMPLETE" ->
                 [s1 EXCEPT !.credsPending = pickResult]
            [] pickResult.pickResultType = "DROP" ->
                 lbOutputStatus(s1, pickResult.status, "DROP")
            [] pickResult.pickResultType = "TRANSIENT_FAILURE" ->
                 lbOutputStatus(s1, pickResult.status, "PROCESSED")
            [] pickResult.pickResultType = "QUEUE" ->
                 [s1 EXCEPT !.queued = TRUE]

\* doPick(): lines 97-118 and 207-221, for the pick the channel returns
lbDoPick(s, pickResult) ==
  IF s.ended
  THEN s
  ELSE LET s1 == [s EXCEPT !.lastPick = pickResult]
       IN CASE pickResult.pickResultType = "COMPLETE" ->
                 [s1 EXCEPT !.credsPending = pickResult]
            [] pickResult.pickResultType = "DROP" ->
                 lbOutputStatus(s1, pickResult.status, "DROP")
            [] pickResult.pickResultType = "TRANSIENT_FAILURE" ->
                 IF s1.metadata.waitForReady
                 THEN [s1 EXCEPT !.queued = TRUE]
                 ELSE lbOutputStatus(s1, pickResult.status, "PROCESSED")
            [] pickResult.pickResultType = "QUEUE" ->
                 [s1 EXCEPT !.queued = TRUE]

\* The continuation that creates the call on the picked subchannel without
\* looking at its connectivity state again.
generateMetadataResolved_noRecheck(s, credsAuthorization, subchannelState, createCallThrows, nextPick) ==
  LET s0 == [s EXCEPT !.subchannelState = subchannelState]
  IN IF createCallThrows
     THEN lbOutputStatus(s0, "INTERNAL", "NOT_STARTED")
     ELSE [s0 EXCEPT !.child = "child",
                     !.createCalls = @ + 1,
                     !.onCallStartedCalls = @ + 1,
                     !.onCallEnded = "onCallEnded",
                     !.childReadRequested = s0.readPending]

\* The generateMetadata continuation of doPick: lines 121-194
generateMetadataResolved(s, credsAuthorization, subchannelState, createCallThrows, nextPick) ==
  LET authorizations == s.metadata.authorization + credsAuthorization
      s0 == [s EXCEPT !.subchannelState = subchannelState]
      s1 == IF authorizations > 1
            THEN lbOutputStatus([s0 EXCEPT !.authorizationConflict = TRUE],
                                "INTERNAL", "PROCESSED")
            ELSE s0
  IN IF subchannelState # "READY"
     THEN lbDoPick(s1, nextPick)
     ELSE IF createCallThrows
          THEN lbOutputStatus(s1, "INTERNAL", "NOT_STARTED")
          ELSE LET s2 == [s1 EXCEPT !.child = "child",
                                    !.createCalls = @ + 1,
                                    !.onCallStartedCalls = @ + 1,
                                    !.onCallEnded = "onCallEnded",
                                    !.childReadRequested = s1.readPending]
                   s3 == IF s2.pendingMessage # 0
                         THEN [s2 EXCEPT !.childCalls = Append(@, s2.pendingMessage)]
                         ELSE s2
               IN IF s3.pendingHalfClose /\ ~s3.writeFilterPending
                  THEN [s3 EXCEPT !.childCalls = Append(@, EndOfStream)]
                  ELSE s3

\* The generateMetadata rejection handler of doPick: lines 195-205
generateMetadataRejected(s, code) ==
  lbOutputStatus(s, IF code = "none" THEN "UNKNOWN" ELSE code, "PROCESSED")

\* cancelWithStatus(status, details): lines 223-227
lbCancelWithStatus(s, status) ==
  LET s1 == IF s.child # NULL THEN [s EXCEPT !.childCancelled = TRUE] ELSE s
  IN lbOutputStatus(s1, status, "PROCESSED")

\* startRead(): lines 258-265
lbStartRead(s) ==
  IF s.child # NULL
  THEN [s EXCEPT !.childReadRequested = TRUE]
  ELSE [s EXCEPT !.readPending = TRUE]

\* The continuation of filterStack.sendMessage: lines 244-253
lbSendMessageResolved(s, message) ==
  LET s1 == [s EXCEPT !.writeFilterPending = FALSE]
  IN IF s1.child # NULL
     THEN LET s2 == [s1 EXCEPT !.childCalls = Append(@, message)]
          IN IF s2.pendingHalfClose
             THEN [s2 EXCEPT !.childCalls = Append(@, EndOfStream)]
             ELSE s2
     ELSE [s1 EXCEPT !.pendingMessage = message]

\* halfClose that does not wait for the sendMessage filter.
lbHalfClose_ignoresFilter(s) ==
  IF s.child # NULL
  THEN [s EXCEPT !.childCalls = Append(@, EndOfStream)]
  ELSE [s EXCEPT !.pendingHalfClose = TRUE]

\* halfClose(): lines 266-273
lbHalfClose(s) ==
  IF s.child # NULL /\ ~s.writeFilterPending
  THEN [s EXCEPT !.childCalls = Append(@, EndOfStream)]
  ELSE [s EXCEPT !.pendingHalfClose = TRUE]

\* Every task starts with no pick handled yet and no subchannel looked at.
LBTask(s) == [s EXCEPT !.lastPick = NoPick, !.subchannelState = NULL]

\* start(metadata, listener): lines 231-240
LB_start ==
  /\ lb.listener = NULL
  /\ \E waitForReady \in BOOLEAN, authorization \in AuthorizationCounts :
       lb' = [LBTask(lb) EXCEPT
                !.listener = "listener",
                !.sendMetadataFilter =
                   [isNull |-> FALSE, waitForReady |-> waitForReady,
                    authorization |-> authorization]]
  /\ UNCHANGED <<h2, srv, rlb, scfg, md, dl, il, cds>>

\* The sendMetadata promise of start resolves: lines 234-236
LB_sendMetadataResolved ==
  /\ ~lb.sendMetadataFilter.isNull
  /\ \E pickResult \in PickResults :
       lb' = lbDoPick([LBTask(lb) EXCEPT !.metadata = lb.sendMetadataFilter,
                                         !.sendMetadataFilter = NullMetadata],
                      pickResult)
  /\ UNCHANGED <<h2, srv, rlb, scfg, md, dl, il, cds>>

\* The sendMetadata promise of start rejects: lines 237-239
LB_sendMetadataRejected ==
  /\ ~lb.sendMetadataFilter.isNull
  /\ \E code \in FilterErrorCodes :
       lb' = lbOutputStatus([LBTask(lb) EXCEPT !.sendMetadataFilter = NullMetadata],
                            code, "PROCESSED")
  /\ UNCHANGED <<h2, srv, rlb, scfg, md, dl, il, cds>>

\* The channel re-picks a call of its pick queue: doPick(), lines 97-221
LB_doPick ==
  /\ lb.queued
  /\ \E pickResult \in PickResults :
       lb' = lbDoPick([LBTask(lb) EXCEPT !.queued = FALSE], pickResult)
  /\ UNCHANGED <<h2, srv, rlb, scfg, md, dl, il, cds>>

LB_generateMetadataResolved ==
  /\ lb.credsPending # NoPick
  /\ \E credsAuthorization \in AuthorizationCounts,
        subchannelState \in SubchannelStates,
        createCallThrows \in BOOLEAN,
        nextPick \in PickResults :
       lb' = generateMetadataResolved(
               [LBTask(lb) EXCEPT !.credsPending = NoPick],
               credsAuthorization, subchannelState, createCallThrows, nextPick)
  /\ UNCHANGED <<h2, srv, rlb, scfg, md, dl, il, cds>>

LB_generateMetadataRejected ==
  /\ lb.credsPending # NoPick
  /\ \E code \in PluginErrorCodes :
       lb' = generateMetadataRejected(
               [LBTask(lb) EXCEPT !.credsPending = NoPick], code)
  /\ UNCHANGED <<h2, srv, rlb, scfg, md, dl, il, cds>>

ChildLive(s) == s.child # NULL /\ ~s.childStatusSent

\* The child's listener, onReceiveMetadata: lines 151-153
LB_onReceiveMetadata ==
  /\ ChildLive(lb)
  /\ ~lb.childCancelled
  /\ ~lb.childMetadataSent
  /\ lb' = [LBTask(lb) EXCEPT !.childMetadataSent = TRUE,
                              !.observed = Append(@, EvMetadata)]
  /\ UNCHANGED <<h2, srv, rlb, scfg, md, dl, il, cds>>

\* The child's listener, onReceiveMessage: lines 154-160 (the filter starts)
LB_onReceiveMessage ==
  /\ ChildLive(lb)
  /\ ~lb.childCancelled
  /\ lb.childMetadataSent
  /\ lb.childReadRequested
  /\ lb.childMsgs < MaxChildMsgs
  /\ lb' = [LBTask(lb) EXCEPT !.childReadRequested = FALSE,
                              !.childMsgs = @ + 1,
                              !.readFilters = @ \cup {lb.childMsgs + 1}]
  /\ UNCHANGED <<h2, srv, rlb, scfg, md, dl, il, cds>>

\* The receiveMessage promise resolves: lines 155-157
receiveMessageResolved(s, message) ==
  [s EXCEPT !.observed = Append(@, EvMessage(message))]

LB_receiveMessageResolved ==
  /\ \E message \in lb.readFilters :
       lb' = receiveMessageResolved(
               [LBTask(lb) EXCEPT !.readFilters = @ \ {message}], message)
  /\ UNCHANGED <<h2, srv, rlb, scfg, md, dl, il, cds>>

\* The receiveMessage promise rejects: lines 157-159
LB_receiveMessageRejected ==
  /\ \E message \in lb.readFilters, code \in FilterErrorCodes :
       lb' = lbCancelWithStatus(
               [LBTask(lb) EXCEPT !.readFilters = @ \ {message}], code)
  /\ UNCHANGED <<h2, srv, rlb, scfg, md, dl, il, cds>>

\* The child's listener, onReceiveStatus: lines 161-163
LB_onReceiveStatus ==
  /\ ChildLive(lb)
  /\ \E status \in ChildStatuses :
       /\ (lb.childCancelled => status = "CANCELLED")
       /\ lb' = lbOutputStatus([LBTask(lb) EXCEPT !.childStatusSent = TRUE],
                               status, "PROCESSED")
  /\ UNCHANGED <<h2, srv, rlb, scfg, md, dl, il, cds>>

LB_startRead ==
  /\ lb.listener # NULL
  /\ lb' = lbStartRead(LBTask(lb))
  /\ UNCHANGED <<h2, srv, rlb, scfg, md, dl, il, cds>>

\* sendMessageWithContext(context, message), lines 241-257, by a single
\* writer: the message before it has passed the filter (a message the filter
\* rejects is never written, and its writer sends no other) and, once there
\* is a child, was handed to it.
LB_sendMessageWithContext ==
  /\ lb.listener # NULL
  /\ lb.sends < MaxSends
  /\ ~lb.halfCloseCalled
  /\ ~lb.writeFilterPending
  /\ lb.pendingMessage = 0 \/ lb.child # NULL
  /\ lb' = [LBTask(lb) EXCEPT !.sends = @ + 1, !.sendFilter = lb.sends + 1,
                              !.writeFilterPending = TRUE]
  /\ UNCHANGED <<h2, srv, rlb, scfg, md, dl, il, cds>>

LB_sendMessageResolved ==
  /\ lb.sendFilter # 0
  /\ lb' = lbSendMessageResolved([LBTask(lb) EXCEPT !.sendFilter = 0], lb.sendFilter)
  /\ UNCHANGED <<h2, srv, rlb, scfg, md, dl, il, cds>>

\* The sendMessage promise rejects: lines 254-256
LB_sendMessageRejected ==
  /\ lb.sendFilter # 0
  /\ \E code \in FilterErrorCodes :
       lb' = lbCancelWithStatus([LBTask(lb) EXCEPT !.sendFilter = 0], code)
  /\ UNCHANGED <<h2, srv, rlb, scfg, md, dl, il, cds>>

LB_halfClose ==
  /\ lb.listener # NULL
  /\ ~lb.halfCloseCalled
  /\ lb' = lbHalfClose([LBTask(lb) EXCEPT !.halfCloseCalled = TRUE])
  /\ UNCHANGED <<h2, srv, rlb, scfg, md, dl, il, cds>>

LBSuspended(s) ==
  s.child = NULL /\ (s.queued \/ s.credsPending # NoPick)

\* One call of cancelWithStatus(status, ...) by the application.
LB_cancelStep(status) ==
  /\ lb.listener # NULL
  /\ lb' = lbCancelWithStatus(
             [LBTask(lb) EXCEPT
                !.cancelCalls = IF @ < 2 THEN @ + 1 ELSE @,
                !.cancelledWhileSuspended = @ \/ LBSuspended(lb)],
             status)

LB_cancelWithStatus ==
  /\ \E status \in CancelCodes : LB_cancelStep(status)
  /\ UNCHANGED <<h2, srv, rlb, scfg, md, dl, il, cds>>

NextLB ==
  \/ LB_start
  \/ LB_sendMetadataResolved
  \/ LB_sendMetadataRejected
  \/ LB_doPick
  \/ LB_generateMetadataResolved
  \/ LB_generateMetadataRejected
  \/ LB_onReceiveMetadata
  \/ LB_onReceiveMessage
  \/ LB_receiveMessageResolved
  \/ LB_receiveMessageRejected
  \/ LB_onReceiveStatus
  \/ LB_startRead
  \/ LB_cancelWithStatus

\* The sending side of a call, with the picks and the events that end it.
NextLBWrite ==
  \/ LB_start
  \/ LB_sendMetadataResolved
  \/ LB_sendMetadataRejected
  \/ LB_doPick
  \/ LB_generateMetadataResolved
  \/ LB_generateMetadataRejected
  \/ LB_sendMessageWithContext
  \/ LB_sendMessageResolved
  \/ LB_sendMessageRejected
  \/ LB_halfClose
  \/ LB_onReceiveStatus
  \/ LB_cancelWithStatus

\* ---------------------------------------------------------------------------
\* Server (packages/grpc-js/src/server.ts, lines 62-336) and
\* Http2ServerCallStream (unnamed/part_002, lines 251-457)
\* ---------------------------------------------------------------------------
\* Largest digit run of a grpc-timeout value in the explored requests.
MaxDigits == 9
\* Number of operations a handler performs on one call.
MaxHandlerOps == 3

\* :path values the application registers handlers for, and those of the
\* requests.
ServicePaths == {"/svc/a"}
RequestPaths == ServicePaths \cup {"/unknown.Svc/M"}

\* HandlerType, part_002 line 247.
HandlerTypes == {"unary", "clientStream", "serverStream", "bidi"}

\* The functions an application registers.
HandlerFuncs == {"impl1", "impl2"}

\* Handler (part_002 lines 240-245), and the absent map entry.
Handlers == [func : HandlerFuncs, type : HandlerTypes]
NoHandler == [func |-> NULL, type |-> NULL]

\* The methods of a service definition with the function that implements
\* each, and the service definitions an application adds: one method, or two
\* with different implementations.
Methods == [path : ServicePaths, func : HandlerFuncs, type : HandlerTypes]
Services ==
  {<<m>> : m \in {m \in Methods : m.func = "impl1"}}
    \cup {<<m1, m2>> : m1 \in {m \in Methods : m.func = "impl1" /\ m.type = "unary"},
                       m2 \in {m \in Methods : m.func = "impl2"}}

\* rstCode values a server stream closes with.
ServerRstInputs == {"NO_ERROR", "CANCEL"}

\* Errors a handler hands to its callback: `message` (own property or NULL),
\* `code` (an integer status code, or NULL when absent or not an integer),
\* `details` (own property or NULL).
HandlerErrors ==
  {[message |-> "message", code |-> NULL, details |-> NULL],
   [message |-> "message", code |-> "NOT_FOUND", details |-> NULL],
   [message |-> "message", code |-> "NOT_FOUND", details |-> "details"]}

\* Characters of a grpc-timeout value: a digit, white space, two unit
\* letters and a character that is none of these.
IsDigit(c) == c = "1"
IsSpace(c) == c = " "
IsUnit(c) == c \in {"S", "m"}

Digits(n) == [i \in 1..n |-> "1"]

\* Raw grpc-timeout header values of the explored requests.
TimeoutValues ==
  {Digits(n) \o <<"S">> : n \in {0, 1} \cup (MaxDigits - 1)..MaxDigits}
    \cup {<<"1", " ", "m">>, <<"1", "x", "S">>, <<"x", "1", "S">>,
          <<"1", "S", "x">>, <<"1">>, <<" ", "1", "S">>}

\* The grpc-timeout values of a request's headers: none or one.
TimeoutHeaderInputs == {<<>>} \cup {<<v>> : v \in TimeoutValues}

\* String.prototype.trim, as Metadata.fromHttp2Headers applies it to every
\* value (ClientConfig.ts line 662).
RECURSIVE trim(_)
trim(v) ==
  IF v = <<>> THEN v
  ELSE IF IsSpace(v[1]) THEN trim(Tail(v))
  ELSE IF IsSpace(v[Len(v)]) THEN trim(SubSeq(v, 1, Len(v) - 1))
  ELSE v

\* Upper limit of the digit group of DEADLINE_REGEX, part_002 line 40.
DeadlineDigits == 8

\* value.match(DEADLINE_REGEX) !== null, for /(\d{1,8})\s*([HMSmun])/:
\* some substring is 1..8 digits, any white space, one unit letter.
matchDeadlineRegex(v) ==
  \E i \in 1..Len(v), d \in 1..DeadlineDigits, w \in 0..Len(v) :
    /\ i + d + w <= Len(v)
    /\ \A k \in i..(i + d - 1) : IsDigit(v[k])
    /\ \A k \in (i + d)..(i + d + w - 1) : IsSpace(v[k])
    /\ IsUnit(v[i + d + w])

\* The error objects the server itself creates.
ErrorOf(message) == [message |-> message, code |-> NULL, details |-> NULL]

\* A status, and the one a call object is constructed with (line 255).
ServerStatus(code, details) == [code |-> code, details |-> details]

SrvInit ==
  [ \* Server: lines 63-66
    http2Server |-> NULL,
    handlers |-> [p \in ServicePaths |-> NoHandler],
    started |-> FALSE,
    \* the module's unimplementedStatusResponse object: lines 32-35
    unimplementedStatusResponse |->
      [message |-> NULL, code |-> "UNIMPLEMENTED",
       details |-> "The server does not implement this method"],
    \* what the last call of register returned, and whether the last call
    \* of addService returned or threw
    registerResult |-> NULL,
    addServiceResult |-> NULL,
    \* the stream of the request being served ("open", "closed") and whether
    \* an Http2ServerCallStream wraps it; then the fields of that object
    stream |-> NULL,
    call |-> FALSE,
    handler |-> NoHandler,
    cancelled |-> FALSE,
    deadline |-> NULL,
    status |-> ServerStatus("OK", "OK"),
    \* http2.ServerHttp2Stream
    headersSent |-> FALSE,
    wantTrailers |-> FALSE,
    streamEnded |-> FALSE,
    wire |-> <<>>,
    \* the grpc-timeout values of the metadata of the request that has just
    \* arrived; whether a receiveUnaryMessage is waiting for its end
    timeoutHeader |-> <<>>,
    receiving |-> FALSE,
    \* the handler: times invoked, operations performed, whether its
    \* writable stream has ended
    handlerCalls |-> 0,
    handlerOps |-> 0,
    writableEnded |-> FALSE,
    \* history: handlers.get(path) was undefined for this request; the last
    \* task ended in an exception
    lookupFailed |-> FALSE,
    thrown |-> FALSE,
    \* the module's defaultResponseHeaders object (part_002 lines 49-56): the
    \* keys it holds beside the four it is created with
    defaultResponseHeaders |-> {},
    \* the call: the keys beside those four of the headers given to
    \* stream.respond, and the keys of the metadata given to its sendMetadata
    responseHeaders |-> {},
    customMetadata |-> {},
    \* the call: the reasons of the 'cancelled' events it has emitted
    cancelledEvents |-> <<>>,
    \* the call: receiveMetadata ended it for an invalid grpc-timeout
    deadlineRejected |-> FALSE ]

\* Frames a server stream puts on the wire.
Frame(frame, code, details) == [frame |-> frame, code |-> code, details |-> details]
HeadersFrame == Frame("HEADERS", "200", NULL)
DataFrame == Frame("DATA", NULL, NULL)

\* stream.respond(headers, options), called at line 287: a destroyed stream
\* throws ERR_HTTP2_INVALID_STREAM and sends nothing.
respondThrows(s) == s.stream = "closed"
respond(s) ==
  [s EXCEPT !.headersSent = TRUE, !.wire = Append(@, HeadersFrame)]

\* stream.write(chunk), called at line 431: nothing is written to a stream
\* that is destroyed or whose writable side has ended.
streamWrite(s) ==
  IF s.stream = "closed" \/ s.streamEnded
  THEN s
  ELSE [s EXCEPT !.wire = Append(@, DataFrame)]

\* stream.end(payload), called at line 445 (and at server.ts line 243)
streamEnd(s, payload) ==
  IF s.stream = "closed" \/ s.streamEnded
  THEN s
  ELSE [s EXCEPT !.streamEnded = TRUE,
                 !.wire = IF payload THEN Append(@, DataFrame) ELSE @]

\* Keys of the custom metadata a handler gives to sendMetadata.
CustomMetadataInputs == {{}, {"x-trace"}}

\* Object.assign(defaultResponseHeaders, custom), line 285: the keys of
\* custom are assigned to the module's object, which is the value returned.
assignToDefaultResponseHeaders(s, custom) ==
  [s EXCEPT !.defaultResponseHeaders = @ \cup custom]

\* sendMetadata(customMetadata): lines 278-302, when respond does not throw
sendMetadataThrows(s) == ~s.headersSent /\ respondThrows(s)
sendMetadataCustom(s, custom) ==
  IF s.headersSent
  THEN s
  ELSE LET s1 == assignToDefaultResponseHeaders(s, custom)
       IN [respond(s1) EXCEPT !.wantTrailers = TRUE,
                              !.responseHeaders = s1.defaultResponseHeaders]

\* sendMetadata() without custom metadata.
sendMetadata(s) == sendMetadataCustom(s, {})

\* end(payload) and write(chunk) throw when their sendMetadata does.
endThrows(s) == ~s.cancelled /\ sendMetadataThrows(s)
writeThrows(s) == ~s.cancelled /\ sendMetadataThrows(s)

\* end that leaves out the headers.
end_noMetadata(s, payload) ==
  IF s.cancelled
  THEN s
  ELSE streamEnd([s EXCEPT !.deadline = NULL], payload)

\* end(payload): lines 434-446; when sendMetadata throws, the exception
\* leaves end after the timer was cleared
end(s, payload) ==
  IF s.cancelled
  THEN s
  ELSE LET s1 == [s EXCEPT !.deadline = NULL]
       IN IF sendMetadataThrows(s1)
          THEN [s1 EXCEPT !.thrown = TRUE]
          ELSE streamEnd(sendMetadata(s1), payload)

\* write(chunk): lines 425-432
write(s) ==
  IF s.cancelled
  THEN s
  ELSE IF sendMetadataThrows(s)
       THEN [s EXCEPT !.thrown = TRUE]
       ELSE streamWrite(sendMetadata(s))

\* sendError(error, code = Status.UNKNOWN): lines 399-423
sendError(s, error, code) ==
  LET details == IF error.code # NULL /\ error.details # NULL
                 THEN error.details
                 ELSE IF error.message # NULL THEN error.message
                      ELSE "Unknown Error"
      statusCode == IF error.code # NULL THEN error.code ELSE code
  IN end([s EXCEPT !.status = ServerStatus(statusCode, details)], FALSE)

\* receiveMetadata(headers): lines 304-327, for the grpc-timeout values the
\* request's metadata holds
receiveMetadata(s, timeoutHeader) ==
  IF Len(timeoutHeader) > 0
  THEN IF ~matchDeadlineRegex(timeoutHeader[1])
       THEN sendError([s EXCEPT !.deadlineRejected = TRUE],
                      ErrorOf("Invalid deadline"), "OUT_OF_RANGE")
       ELSE [s EXCEPT !.deadline = "armed"]
  ELSE s

\* No error: the `null` a handler passes to its callback.
NoError == [message |-> NULL, code |-> NULL, details |-> NULL]

\* sendUnaryMessage(err, value, metadata, flags): lines 374-397; an exception
\* of end(response) is caught like one of serializeMessage
sendUnaryMessage(s, err, serializeThrows) ==
  IF err # NoError
  THEN sendError(s, err, "UNKNOWN")
  ELSE IF serializeThrows \/ endThrows(s)
       THEN sendError(IF serializeThrows THEN s ELSE end(s, TRUE),
                      ErrorOf("message"), "INTERNAL")
       ELSE end(s, TRUE)

\* handleExpiredDeadline with the two statements in the other order.
handleExpiredDeadline_cancelFirst(s) ==
  sendError([s EXCEPT !.deadline = "fired", !.cancelled = TRUE],
            ErrorOf("Deadline exceeded"), "DEADLINE_EXCEEDED")

\* handleExpiredDeadline(call): lines 452-457; an exception of sendError
\* leaves the function before `cancelled` is set
handleExpiredDeadline(s) ==
  LET s1 == [s EXCEPT !.deadline = "fired"]
      s2 == sendError(s1, ErrorOf("Deadline exceeded"), "DEADLINE_EXCEEDED")
  IN IF endThrows(s1) THEN s2
     ELSE [s2 EXCEPT !.cancelled = TRUE,
                     !.cancelledEvents = Append(@, "deadline")]

\* register that replaces the handler of a path that has one.
register_overwrites(s, name, handler, type) ==
  [s EXCEPT !.handlers[name] = [func |-> handler, type |-> type],
            !.registerResult = "true"]

\* Server.register(name, handler, serialize, deserialize, type): lines 189-201
register(s, name, handler, type) ==
  IF s.handlers[name] # NoHandler
  THEN [s EXCEPT !.registerResult = "false"]
  ELSE [s EXCEPT !.handlers[name] = [func |-> handler, type |-> type],
                 !.registerResult = "true"]

\* Every task starts with nothing returned or thrown yet and no request
\* headers at hand.
SrvTask(s) ==
  [s EXCEPT !.registerResult = NULL, !.addServiceResult = NULL,
            !.timeoutHeader = <<>>, !.thrown = FALSE]

\* One call of register.
SRV_registerStep(name, handler, type) ==
  /\ srv' = register(SrvTask(srv), name, handler, type)
  /\ UNCHANGED <<h2, lb, rlb, scfg, md, dl, il, cds>>

SRV_register ==
  \E name \in ServicePaths, handler \in HandlerFuncs, type \in HandlerTypes :
    SRV_registerStep(name, handler, type)

\* The forEach of addService over the methods of the service: server.ts
\* lines 93-131
RECURSIVE registerMethods(_, _)
registerMethods(s, service) ==
  IF service = <<>>
  THEN [s EXCEPT !.addServiceResult = "returns"]
  ELSE LET method == Head(service)
           s1 == register(s, method.path, method.func, method.type)
       IN IF s1.registerResult = "false"
          THEN [s1 EXCEPT !.addServiceResult = "throws"]
          ELSE registerMethods(s1, Tail(service))

\* addService(service, implementation): server.ts lines 74-132
addService(s, service) ==
  IF s.started \/ Len(service) = 0
  THEN [s EXCEPT !.addServiceResult = "throws"]
  ELSE registerMethods(s, service)

\* One call of addService.
SRV_addServiceStep(service) ==
  /\ srv' = addService(SrvTask(srv), service)
  /\ UNCHANGED <<h2, lb, rlb, scfg, md, dl, il, cds>>

\* A started server refuses every service alike.
SRV_addService ==
  \E service \in IF srv.started THEN {<<>>} ELSE Services :
    SRV_addServiceStep(service)

\* bindAsync(port, creds, callback): lines 138-183, the server listening
SRV_bindAsync ==
  /\ ~srv.started
  /\ srv.http2Server = NULL
  /\ srv' = [SrvTask(srv) EXCEPT !.http2Server = "listening"]
  /\ UNCHANGED <<h2, lb, rlb, scfg, md, dl, il, cds>>

\* start(): lines 203-213
SRV_start ==
  /\ srv.http2Server # NULL
  /\ ~srv.started
  /\ srv' = [SrvTask(srv) EXCEPT !.started = TRUE]
  /\ UNCHANGED <<h2, lb, rlb, scfg, md, dl, il, cds>>

\* The state of the server with a new stream and no call object on it.
newStream(s) ==
  [s EXCEPT !.stream = "open", !.call = FALSE, !.handler = NoHandler,
            !.cancelled = FALSE, !.deadline = NULL,
            !.status = ServerStatus("OK", "OK"),
            !.headersSent = FALSE, !.wantTrailers = FALSE,
            !.streamEnded = FALSE, !.wire = <<>>,
            !.receiving = FALSE, !.handlerCalls = 0, !.handlerOps = 0,
            !.writableEnded = FALSE, !.lookupFailed = FALSE,
            !.responseHeaders = {}, !.customMetadata = {},
            !.cancelledEvents = <<>>, !.deadlineRejected = FALSE]

\* The catch block of the 'stream' listener: server.ts lines 275-279. The
\* new call object has no deadline; when the first call object already sent
\* the headers, the wantTrailers listener is the first one's and the
\* trailers carry the first one's status.
catchStreamError(s, err) ==
  LET call == sendError([s EXCEPT !.handler = NoHandler,
                                  !.cancelled = FALSE,
                                  !.deadline = NULL,
                                  !.status = ServerStatus("OK", "OK")],
                        [err EXCEPT !.code = "INTERNAL"], "UNKNOWN")
  IN IF s.headersSent THEN [call EXCEPT !.status = s.status] ELSE call

\* The 'stream' listener of _setupHandlers: server.ts lines 238-280, up to the
\* first await of handleUnary and handleServerStreaming (lines 291, 318)
onStream(s, path, rawTimeout) ==
  LET timeoutHeader == [i \in 1..Len(rawTimeout) |-> trim(rawTimeout[i])]
      s0 == [newStream(s) EXCEPT !.timeoutHeader = timeoutHeader]
      handler == IF path \in DOMAIN s.handlers
                 THEN s.handlers[path] ELSE NoHandler
  IN IF ~s.started
     THEN streamEnd(s0, FALSE)
     ELSE IF handler = NoHandler
          THEN catchStreamError(
                 [s0 EXCEPT !.call = TRUE, !.lookupFailed = TRUE,
                            !.unimplementedStatusResponse.code = "INTERNAL"],
                 s0.unimplementedStatusResponse)
          ELSE LET s1 == receiveMetadata(
                           [s0 EXCEPT !.call = TRUE, !.handler = handler],
                           timeoutHeader)
               IN IF handler.type \in {"unary", "serverStream"}
                  THEN [s1 EXCEPT !.receiving = TRUE]
                  ELSE catchStreamError(s1, ErrorOf("not implemented yet"))

\* One 'stream' event. The model follows one stream at a time: the next one
\* arrives when the last is closed and its timer is no longer pending.
SRV_streamStep(path, rawTimeout) ==
  /\ srv.http2Server # NULL
  /\ srv.stream \in {NULL, "closed"}
  /\ srv.deadline # "armed"
  /\ srv' = onStream(SrvTask(srv), path, rawTimeout)
  /\ UNCHANGED <<h2, lb, rlb, scfg, md, dl, il, cds>>

SRV_onStream ==
  \E path \in RequestPaths, rawTimeout \in TimeoutHeaderInputs :
    SRV_streamStep(path, rawTimeout)

\* The 'close' listener of the call object: part_002 lines 266-271
onStreamClose(s, rstCode) ==
  [s EXCEPT !.stream = "closed",
            !.cancelled = IF s.call /\ rstCode = "CANCEL" THEN TRUE ELSE @,
            !.cancelledEvents = IF s.call /\ rstCode = "CANCEL"
                                THEN Append(@, "cancelled") ELSE @]

SC_onClose ==
  /\ srv.stream = "open"
  /\ \E rstCode \in ServerRstInputs : srv' = onStreamClose(SrvTask(srv), rstCode)
  /\ UNCHANGED <<h2, lb, rlb, scfg, md, dl, il, cds>>

\* The 'wantTrailers' listener of sendMetadata: part_002 lines 288-301. The
\* stream emits the event once, after end() and the last DATA frame.
onWantTrailers(s) ==
  [s EXCEPT !.wantTrailers = FALSE,
            !.wire = Append(@, Frame("TRAILERS", s.status.code, s.status.details))]

SC_onWantTrailers ==
  /\ srv.stream = "open"
  /\ srv.streamEnded
  /\ srv.wantTrailers
  /\ srv' = onWantTrailers(SrvTask(srv))
  /\ UNCHANGED <<h2, lb, rlb, scfg, md, dl, il, cds>>

\* The deadline timer fires.
SC_handleExpiredDeadline ==
  /\ srv.deadline = "armed"
  /\ srv' = handleExpiredDeadline(SrvTask(srv))
  /\ UNCHANGED <<h2, lb, rlb, scfg, md, dl, il, cds>>

\* The 'end' listener of receiveUnaryMessage (part_002 lines 340-349) and
\* the rest of handleUnary / handleServerStreaming after their await
\* (server.ts lines 293-303, 320-328)
onRequestEnd(s, deserializeThrows) ==
  LET s1 == [s EXCEPT !.receiving = FALSE]
  IN IF deserializeThrows
     THEN sendError(s1, ErrorOf("message"), "INTERNAL")
     ELSE IF s1.cancelled
          THEN s1
          ELSE [s1 EXCEPT !.handlerCalls = @ + 1]

\* One 'end' event of the request.
SC_requestEndStep(deserializeThrows) ==
  /\ srv.stream = "open"
  /\ srv.receiving
  /\ srv' = onRequestEnd(SrvTask(srv), deserializeThrows)
  /\ UNCHANGED <<h2, lb, rlb, scfg, md, dl, il, cds>>

SC_onRequestEnd ==
  \E deserializeThrows \in BOOLEAN : SC_requestEndStep(deserializeThrows)

\* The handler is running and may operate on the call.
HandlerMayAct(s) == s.handlerCalls > 0 /\ s.handlerOps < MaxHandlerOps
HandlerOp(s) == [SrvTask(s) EXCEPT !.handlerOps = @ + 1]

\* call.sendMetadata(responseMetadata) by a handler: part_002 lines 93-95,
\* 149-151
SC_sendMetadataStep(custom) ==
  /\ HandlerMayAct(srv)
  /\ LET s == [HandlerOp(srv) EXCEPT !.customMetadata = @ \cup custom]
     IN srv' = IF sendMetadataThrows(s)
               THEN [assignToDefaultResponseHeaders(s, custom) EXCEPT !.thrown = TRUE]
               ELSE sendMetadataCustom(s, custom)

SC_sendMetadata ==
  /\ \E custom \in CustomMetadataInputs : SC_sendMetadataStep(custom)
  /\ UNCHANGED <<h2, lb, rlb, scfg, md, dl, il, cds>>

\* One call of a unary handler's callback: server.ts lines 300-303. The
\* default handler passes unimplementedStatusResponse (lines 45-47).
SC_callbackStep(err, serializeThrows) ==
  /\ HandlerMayAct(srv)
  /\ srv.handler.type = "unary"
  /\ srv' = sendUnaryMessage(HandlerOp(srv), err, serializeThrows)
  /\ UNCHANGED <<h2, lb, rlb, scfg, md, dl, il, cds>>

SC_sendUnaryMessage ==
  \E err \in HandlerErrors \cup {NoError, srv.unimplementedStatusResponse},
     serializeThrows \in BOOLEAN :
    SC_callbackStep(err, serializeThrows)

\* ServerWritableStreamImpl._write and the 'error' listener: part_002 lines
\* 153-163 and 139-142; the listener's this.end() reaches _final (165-168)
writableWrite(s, serializeThrows) ==
  IF ~serializeThrows /\ ~writeThrows(s)
  THEN write(s)
  ELSE LET err == [ErrorOf("message") EXCEPT !.code = "INTERNAL"]
           s1 == sendError(s, err, "UNKNOWN")
       IN IF endThrows(s)
          THEN s1
          ELSE end([s1 EXCEPT !.writableEnded = TRUE], FALSE)

\* A server-streaming handler writes a response.
SC_write ==
  /\ HandlerMayAct(srv)
  /\ srv.handler.type = "serverStream"
  /\ ~srv.writableEnded
  /\ \E serializeThrows \in BOOLEAN :
       srv' = writableWrite(HandlerOp(srv), serializeThrows)
  /\ UNCHANGED <<h2, lb, rlb, scfg, md, dl, il, cds>>

\* A server-streaming handler ends its stream: _final, part_002 lines 165-168
SC_end ==
  /\ HandlerMayAct(srv)
  /\ srv.handler.type = "serverStream"
  /\ ~srv.writableEnded
  /\ srv' = end([HandlerOp(srv) EXCEPT !.writableEnded = TRUE], FALSE)
  /\ UNCHANGED <<h2, lb, rlb, scfg, md, dl, il, cds>>

NextServer ==
  \/ SRV_register
  \/ SRV_addService
  \/ SRV_bindAsync
  \/ SRV_start
  \/ SRV_onStream
  \/ SC_onRequestEnd
  \/ SC_sendMetadata
  \/ SC_sendUnaryMessage
  \/ SC_write
  \/ SC_end
  \/ SC_onWantTrailers
  \/ SC_handleExpiredDeadline
  \/ SC_onClose

\* ---------------------------------------------------------------------------
\* ResolvingLoadBalancer (packages/grpc-js/src/resolving-load-balancer.ts,
\* lines 90-342)
\* ---------------------------------------------------------------------------
\* ConnectivityState values a child policy reports.
ChildStates == {"IDLE", "CONNECTING", "READY", "TRANSIENT_FAILURE"}

\* Service configs: a name and what the loadBalancingConfig list holds (no
\* entry, a supported entry, or only entries the client does not support).
ServiceConfig(name, loadBalancingConfig) == [name |-> name, lb |-> loadBalancingConfig]
NoServiceConfig == ServiceConfig(NULL, NULL)

\* The service configs a resolver yields.
ResolverServiceConfigs ==
  {ServiceConfig("SC1", "supported"), ServiceConfig("SC2", "empty"),
   ServiceConfig("SC3", "unsupported")}

\* The default service config of a channel without the grpc.service_config
\* option: lines 145-150
DefaultServiceConfig == ServiceConfig("default", "empty")

\* Errors a resolver reports, and the status of lines 223-228.
ResolverErrors == {"error1", "error2"}
IncompatibleLbError == "All load balancer options in service config are not compatible"

\* Endpoint lists of resolver results.
EndpointLists == {"endpoints1", "endpoints2"}

\* selectLbConfigFromList(configs, true), load-balancer.ts (not among the
\* sources): the first supported entry, the default policy for an empty list,
\* null when there are entries and none is supported.
selectLbConfigFromList(configs) ==
  CASE configs = "supported" -> "round_robin"
    [] configs = "unsupported" -> NULL
    [] OTHER -> "pick_first"

\* Pickers: the child's, QueuePicker and UnavailablePicker(error); exitIdle
\* tells that the picker calls exitIdle() of this load balancer.
Picker(kind, error, exitIdle) == [kind |-> kind, error |-> error, exitIdle |-> exitIdle]
QueuePicker == Picker("QueuePicker", NULL, TRUE)
ChildPicker == Picker("child", NULL, FALSE)
UnavailablePicker(error) == Picker("UnavailablePicker", error, FALSE)

RlbInit ==
  [ \* fields of ResolvingLoadBalancer: lines 97-120, after the constructor
    latestChildState |-> "IDLE",
    latestChildPicker |-> QueuePicker,
    currentState |-> "IDLE",
    previousServiceConfig |-> NoServiceConfig,
    continueResolving |-> FALSE,
    \* backoffTimeout.isRunning()
    backoffRunning |-> FALSE,
    \* innerResolver: a resolution was requested and the resolver is alive;
    \* a result or error of the resolver was under way when destroy() ran
    resolving |-> FALSE,
    inFlight |-> FALSE,
    \* destroy() was called
    destroyed |-> FALSE,
    \* childLoadBalancer: the arguments of its last updateAddressList
    childEndpoints |-> NULL,
    childLbConfig |-> NULL,
    \* the last task: the resolver's (serviceConfig, serviceConfigError) and
    \* the working config of the listener, the (state, picker) pairs given to
    \* channelControlHelper.updateState, the arguments of
    \* onSuccessfulResolution and of onFailedResolution
    resolved |-> <<>>,
    workingServiceConfig |-> NoServiceConfig,
    published |-> <<>>,
    succeeded |-> <<>>,
    failed |-> <<>>,
    \* the last task: its calls of innerResolver.updateResolution()
    resolverCalls |-> 0 ]

\* updateState(connectivityState, picker): lines 276-290
rlbUpdateState(s, connectivityState, picker) ==
  LET p == IF connectivityState = "IDLE"
           THEN [picker EXCEPT !.exitIdle = TRUE] ELSE picker
  IN [s EXCEPT !.currentState = connectivityState,
               !.published = Append(@, <<connectivityState, p>>)]

\* handleResolutionFailure(error): lines 292-300
handleResolutionFailure(s, error) ==
  IF s.latestChildState = "IDLE"
  THEN [rlbUpdateState(s, "TRANSIENT_FAILURE", UnavailablePicker(error))
          EXCEPT !.failed = Append(@, error)]
  ELSE s

\* BackoffTimeout: runOnce() starts the timer, and the timer that fires is
\* no longer running when its callback is called.
runOnce(s) == [s EXCEPT !.backoffRunning = TRUE]

backoffTimerFired(s) == [s EXCEPT !.backoffRunning = FALSE]

\* updateResolution(): lines 264-274
updateResolution(s) ==
  LET s1 == [s EXCEPT !.resolving = TRUE, !.resolverCalls = @ + 1]
      s2 == IF s1.currentState = "IDLE"
            THEN rlbUpdateState(s1, "CONNECTING", s1.latestChildPicker)
            ELSE s1
  IN runOnce(s2)

\* onSuccessfulResolution that treats every service config error as if no
\* config were remembered.
onSuccessfulResolution_dropsPrevious(s, endpointList, serviceConfig, serviceConfigError, selectorGiven) ==
  LET s1 == IF serviceConfig = NoServiceConfig
            THEN IF serviceConfigError = NULL
                 THEN [s EXCEPT !.previousServiceConfig = NoServiceConfig,
                                !.workingServiceConfig = DefaultServiceConfig]
                 ELSE handleResolutionFailure(s, serviceConfigError)
            ELSE [s EXCEPT !.workingServiceConfig = serviceConfig,
                           !.previousServiceConfig = serviceConfig]
      loadBalancingConfig == selectLbConfigFromList(s1.workingServiceConfig.lb)
      finalServiceConfig == IF s1.workingServiceConfig = NoServiceConfig
                            THEN DefaultServiceConfig
                            ELSE s1.workingServiceConfig
  IN IF loadBalancingConfig = NULL
     THEN handleResolutionFailure(s1, IncompatibleLbError)
     ELSE [s1 EXCEPT !.childEndpoints = endpointList,
                     !.childLbConfig = loadBalancingConfig,
                     !.succeeded = Append(@, <<finalServiceConfig, selectorGiven>>)]

\* The resolver listener's onSuccessfulResolution: lines 182-242
onSuccessfulResolution(s, endpointList, serviceConfig, serviceConfigError, selectorGiven) ==
  LET s1 == IF serviceConfig = NoServiceConfig
            THEN IF serviceConfigError = NULL
                 THEN [s EXCEPT !.previousServiceConfig = NoServiceConfig,
                                !.workingServiceConfig = DefaultServiceConfig]
                 ELSE IF s.previousServiceConfig = NoServiceConfig
                      THEN handleResolutionFailure(s, serviceConfigError)
                      ELSE [s EXCEPT !.workingServiceConfig = s.previousServiceConfig]
            ELSE [s EXCEPT !.workingServiceConfig = serviceConfig,
                           !.previousServiceConfig = serviceConfig]
      loadBalancingConfig == selectLbConfigFromList(s1.workingServiceConfig.lb)
      finalServiceConfig == IF s1.workingServiceConfig = NoServiceConfig
                            THEN DefaultServiceConfig
                            ELSE s1.workingServiceConfig
  IN IF loadBalancingConfig = NULL
     THEN handleResolutionFailure(s1, IncompatibleLbError)
     ELSE [s1 EXCEPT !.childEndpoints = endpointList,
                     !.childLbConfig = loadBalancingConfig,
                     !.succeeded = Append(@, <<finalServiceConfig, selectorGiven>>)]

\* Each task starts with the records of the last task cleared.
RlbTask(s) ==
  [s EXCEPT !.resolved = <<>>, !.workingServiceConfig = NoServiceConfig,
            !.published = <<>>, !.succeeded = <<>>, !.failed = <<>>,
            !.resolverCalls = 0]

\* The resolver reports a result.
RLB_resolutionStep(endpointList, serviceConfig, serviceConfigError, selectorGiven) ==
  /\ rlb.resolving \/ rlb.inFlight
  /\ rlb' = onSuccessfulResolution(
              [RlbTask(rlb) EXCEPT !.resolved = <<serviceConfig, serviceConfigError>>,
                                   !.inFlight = FALSE],
              endpointList, serviceConfig, serviceConfigError, selectorGiven)
  /\ UNCHANGED <<h2, lb, srv, scfg, md, dl, il, cds>>

RLB_onSuccessfulResolution ==
  \E endpointList \in EndpointLists,
     serviceConfig \in ResolverServiceConfigs \cup {NoServiceConfig},
     serviceConfigError \in ResolverErrors \cup {NULL},
     selectorGiven \in BOOLEAN :
    /\ serviceConfig # NoServiceConfig => serviceConfigError = NULL
    /\ RLB_resolutionStep(endpointList, serviceConfig, serviceConfigError, selectorGiven)

\* The resolver listener's onError: lines 243-245
RLB_onError ==
  /\ rlb.resolving \/ rlb.inFlight
  /\ \E error \in ResolverErrors :
       rlb' = handleResolutionFailure([RlbTask(rlb) EXCEPT !.inFlight = FALSE], error)
  /\ UNCHANGED <<h2, lb, srv, scfg, md, dl, il, cds>>

\* The child's helper updateState: lines 167-171
childUpdateState(s, newState, picker) ==
  rlbUpdateState([s EXCEPT !.latestChildState = newState,
                           !.latestChildPicker = picker], newState, picker)

RLB_childUpdateState ==
  /\ ~rlb.destroyed
  /\ rlb.childLbConfig # NULL
  /\ \E newState \in ChildStates :
       rlb' = childUpdateState(RlbTask(rlb), newState, ChildPicker)
  /\ UNCHANGED <<h2, lb, srv, scfg, md, dl, il, cds>>

\* requestReresolution that asks the resolver whether or not the backoff
\* timer is running.
requestReresolution_duringBackoff(s) == updateResolution(s)

\* The child's helper requestReresolution: lines 156-166
requestReresolution(s) ==
  IF s.backoffRunning THEN [s EXCEPT !.continueResolving = TRUE]
  ELSE updateResolution(s)

RLB_requestReresolution ==
  /\ ~rlb.destroyed
  /\ rlb.childLbConfig # NULL
  /\ rlb' = requestReresolution(RlbTask(rlb))
  /\ UNCHANGED <<h2, lb, srv, scfg, md, dl, il, cds>>

\* exitIdle(): lines 302-314
exitIdle(s) ==
  IF s.currentState \in {"IDLE", "TRANSIENT_FAILURE"}
  THEN IF s.backoffRunning THEN [s EXCEPT !.continueResolving = TRUE]
       ELSE updateResolution(s)
  ELSE s

RLB_exitIdle ==
  /\ ~rlb.destroyed
  /\ rlb' = exitIdle(RlbTask(rlb))
  /\ UNCHANGED <<h2, lb, srv, scfg, md, dl, il, cds>>

\* The backoff timer's callback: lines 253-260
onBackoffTimer(s) ==
  LET s1 == backoffTimerFired(s)
  IN IF s1.continueResolving
     THEN [updateResolution(s1) EXCEPT !.continueResolving = FALSE]
     ELSE rlbUpdateState(s1, s1.latestChildState, s1.latestChildPicker)

RLB_onBackoffTimer ==
  /\ rlb.backoffRunning
  /\ rlb' = onBackoffTimer(RlbTask(rlb))
  /\ UNCHANGED <<h2, lb, srv, scfg, md, dl, il, cds>>

\* destroy(): lines 328-338
destroy(s) ==
  [s EXCEPT !.childEndpoints = NULL, !.childLbConfig = NULL,
            !.resolving = FALSE, !.inFlight = s.resolving \/ s.inFlight,
            !.destroyed = TRUE, !.backoffRunning = FALSE,
            !.latestChildState = "IDLE", !.latestChildPicker = QueuePicker,
            !.currentState = "IDLE",
            !.previousServiceConfig = NoServiceConfig,
            !.continueResolving = FALSE]

RLB_destroy ==
  /\ rlb' = destroy(RlbTask(rlb))
  /\ UNCHANGED <<h2, lb, srv, scfg, md, dl, il, cds>>

NextResolving ==
  \/ RLB_exitIdle
  \/ RLB_onSuccessfulResolution
  \/ RLB_onError
  \/ RLB_childUpdateState
  \/ RLB_requestReresolution
  \/ RLB_onBackoffTimer
  \/ RLB_destroy

\* ---------------------------------------------------------------------------
\* The deadline of a server call: the duration receiveMetadata arms the timer
\* with (unnamed/part_002, lines 40-48 and 304-327)
\* ---------------------------------------------------------------------------
\* Numbers are kept as their base-256 digits, lowest first, where a product
\* does not fit in 32 bits.
LimbCount == 7

Limbs(n) ==
  [i \in 1..LimbCount |-> IF i <= 4 THEN (n \div (256 ^ (i - 1))) % 256 ELSE 0]

\* Digit i of a product of two digit sequences before the carries: the sum
\* of the digit products of weight 256^(i-1).
RECURSIVE ColumnSum(_,_,_,_)
ColumnSum(a, b, i, j) ==
  IF j > i THEN 0
  ELSE a[j] * b[i - j + 1] + ColumnSum(a, b, i, j + 1)

RECURSIVE Carry(_,_,_,_)
Carry(a, b, i, carry) ==
  IF i > LimbCount THEN <<>>
  ELSE LET sum == ColumnSum(a, b, i, 1) + carry
       IN <<sum % 256>> \o Carry(a, b, i + 1, sum \div 256)

\* The digits of a * b.
Product(a, b) == Carry(Limbs(a), Limbs(b), 1, 0)

\* x | 0 for a non-negative integer x given by its digits: the low 32 bits,
\* read as a signed integer.
ToInt32(limbs) ==
  (IF limbs[4] >= 128 THEN limbs[4] - 256 ELSE limbs[4]) * 16777216
    + limbs[3] * 65536 + limbs[2] * 256 + limbs[1]

\* deadlineUnitsToMs, lines 41-48: the units that multiply, and those that
\* divide (u is 0.001, n is 0.000001).
DeadlineUnits == {"H", "M", "S", "m", "u", "n"}

deadlineUnitsToMs(unit) ==
  CASE unit = "H" -> 3600000
    [] unit = "M" -> 60000
    [] unit = "S" -> 1000
    [] unit = "m" -> 1

deadlineUnitsDivisor(unit) ==
  CASE unit = "u" -> 1000
    [] unit = "n" -> 1000000

\* The digits of the integer part of n times the unit's factor.
DurationLimbs(n, unit) ==
  IF unit \in {"u", "n"}
  THEN Limbs(n \div deadlineUnitsDivisor(unit))
  ELSE Product(n, deadlineUnitsToMs(unit))

\* (+match[1] * deadlineUnitsToMs[match[2]]) | 0: line 321
timeoutOf(n, unit) == ToInt32(DurationLimbs(n, unit))

\* The numbers of the explored grpc-timeout values: the powers of ten of 1
\* to 8 digits and the numbers next to them, and the numbers around which
\* the product with a unit passes 2^31 and 2^32.
TimeoutNumbers ==
  {1, 2, 9, 10, 99, 100, 999, 1000, 9999, 10000, 99999, 100000, 999999,
   1000000, 1999999, 9999999, 10000000, 99999999}
  \cup {596, 597, 1193, 1194, 35791, 35792, 71582, 71583,
         2147483, 2147484, 4294967, 4294968}

DlInit == [n |-> 0, unit |-> NULL, armed |-> FALSE, timeout |-> 0]

\* receiveMetadata for a request whose grpc-timeout is n followed by unit:
\* setTimeout(handleExpiredDeadline, timeout, this), lines 321-323
DL_receiveMetadata ==
  /\ ~dl.armed
  /\ dl' = [dl EXCEPT !.armed = TRUE, !.timeout = timeoutOf(dl.n, dl.unit)]
  /\ UNCHANGED <<h2, lb, srv, rlb, scfg, md, il, cds>>

\* ---------------------------------------------------------------------------
\* InterceptingListenerImpl (packages/grpc-js/.../ApiConfigSource.d.ts, lines
\* 131-162)
\* ---------------------------------------------------------------------------
\* Messages the call delivers to one listener.
MaxListenerMsgs == 3

IlInit ==
  [ \* fields of InterceptingListenerImpl
    processingMessage |-> FALSE,
    pendingStatus |-> NULL,
    \* the wrapped listener: the metadata, the messages and the status it
    \* holds and has not passed to `next` yet
    heldMetadata |-> FALSE,
    heldMessages |-> {},
    heldStatus |-> FALSE,
    \* the call: what it has delivered to this listener
    metadataReceived |-> FALSE,
    accepted |-> 0,
    statusReceived |-> FALSE,
    \* what nextListener has received
    forwarded |-> <<>> ]

\* onReceiveMetadata(metadata): lines 136-140
IL_onReceiveMetadata ==
  /\ ~il.metadataReceived
  /\ il.accepted = 0
  /\ ~il.statusReceived
  /\ il' = [il EXCEPT !.metadataReceived = TRUE, !.heldMetadata = TRUE]
  /\ UNCHANGED <<h2, lb, srv, rlb, scfg, md, dl, cds>>

\* The listener passes the metadata on: lines 137-139
IL_metadataNext ==
  /\ il.heldMetadata
  /\ il' = [il EXCEPT !.heldMetadata = FALSE,
                      !.forwarded = Append(@, EvMetadata)]
  /\ UNCHANGED <<h2, lb, srv, rlb, scfg, md, dl, cds>>

\* onReceiveMessage(message): lines 141-152, up to the call of the listener.
\* The call delivers no message after the status.
onReceiveMessage(s, message) ==
  [s EXCEPT !.processingMessage = TRUE,
            !.heldMessages = @ \cup {message}]

IL_onReceiveMessage ==
  /\ il.accepted < MaxListenerMsgs
  /\ ~il.statusReceived
  /\ il' = onReceiveMessage([il EXCEPT !.accepted = @ + 1], il.accepted + 1)
  /\ UNCHANGED <<h2, lb, srv, rlb, scfg, md, dl, cds>>

\* The `next` the listener is given for a message: lines 145-151
messageNext(s, msg) ==
  LET s1 == [s EXCEPT !.processingMessage = FALSE,
                      !.forwarded = Append(@, EvMessage(msg))]
  IN IF s1.pendingStatus # NULL
     THEN [s1 EXCEPT !.forwarded = Append(@, EvStatus(s1.pendingStatus))]
     ELSE s1

\* The listener completes one of the messages it holds, in any order.
IL_messageNext ==
  /\ \E msg \in il.heldMessages :
       il' = messageNext([il EXCEPT !.heldMessages = @ \ {msg}], msg)
  /\ UNCHANGED <<h2, lb, srv, rlb, scfg, md, dl, cds>>

\* onReceiveStatus(status): lines 153-161, up to the call of the listener
IL_onReceiveStatus ==
  /\ ~il.statusReceived
  /\ il' = [il EXCEPT !.statusReceived = TRUE, !.heldStatus = TRUE]
  /\ UNCHANGED <<h2, lb, srv, rlb, scfg, md, dl, cds>>

\* The `next` the listener is given for the status: lines 154-160
statusNext(s, processedStatus) ==
  IF s.processingMessage
  THEN [s EXCEPT !.pendingStatus = processedStatus]
  ELSE [s EXCEPT !.forwarded = Append(@, EvStatus(processedStatus))]

IL_statusNext ==
  /\ il.heldStatus
  /\ il' = statusNext([il EXCEPT !.heldStatus = FALSE], "OK")
  /\ UNCHANGED <<h2, lb, srv, rlb, scfg, md, dl, cds>>

NextListener ==
  \/ IL_onReceiveMetadata
  \/ IL_metadataNext
  \/ IL_onReceiveMessage
  \/ IL_messageNext
  \/ IL_onReceiveStatus
  \/ IL_statusNext

\* ---------------------------------------------------------------------------
\* CdsLoadBalancer (packages/grpc-js/src/call.ts, lines 249-325)
\* ---------------------------------------------------------------------------
\* Registrations of cluster watchers the xDS client holds at most in the
\* explored behaviours.
MaxWatches == 3

\* Cluster names of the CDS configs, and the names of the Cluster resources
\* the xDS client reports.
ClusterNames == {"cluster1", "cluster2", "cluster3"}

CdsInit ==
  [ \* fields of CdsLoadBalancer: lines 251-259
    xdsClient |-> NULL,
    isWatcherActive |-> FALSE,
    latestCdsUpdate |-> NULL,
    latestConfig |-> NULL,
    \* the xDS client: how often this.watcher is in its list of watchers of
    \* each cluster
    watchers |-> [c \in ClusterNames |-> 0],
    \* childBalancer: the cluster of the eds config of its last update
    childCluster |-> NULL,
    \* destroy() was called; the last task gave TRANSIENT_FAILURE to the
    \* channel
    destroyed |-> FALSE,
    published |-> FALSE ]

\* Number of registrations of the watcher.
RECURSIVE SumOver(_, _)
SumOver(f, S) ==
  IF S = {} THEN 0
  ELSE LET c == CHOOSE x \in S : TRUE IN f[c] + SumOver(f, S \ {c})

WatchCount(s) == SumOver(s.watchers, ClusterNames)

\* XdsClient.addClusterWatcher(clusterName, watcher): the watcher is added
\* to the list of the cluster's watchers.
addClusterWatcher(s, clusterName) ==
  [s EXCEPT !.watchers[clusterName] = @ + 1]

\* XdsClient.removeClusterWatcher(clusterName, watcher): the watcher is
\* taken from the list of the cluster's watchers if it is there.
removeClusterWatcher(s, clusterName) ==
  IF s.watchers[clusterName] > 0
  THEN [s EXCEPT !.watchers[clusterName] = @ - 1]
  ELSE s

\* Each task starts with the record of the last task cleared.
CdsTask(s) == [s EXCEPT !.published = FALSE]

\* updateAddressList(addressList, lbConfig, attributes): lines 293-308
updateAddressList(s, isCdsConfig, cluster, hasXdsClient) ==
  IF ~isCdsConfig \/ ~hasXdsClient
  THEN s
  ELSE LET s1 == [s EXCEPT !.xdsClient = "xdsClient", !.latestConfig = cluster]
       IN IF ~s1.isWatcherActive
          THEN [addClusterWatcher(s1, cluster) EXCEPT !.isWatcherActive = TRUE]
          ELSE s1

CDS_updateAddressList ==
  /\ ~cds.destroyed
  /\ WatchCount(cds) < MaxWatches
  /\ \E isCdsConfig \in BOOLEAN, cluster \in ClusterNames, hasXdsClient \in BOOLEAN :
       cds' = updateAddressList(CdsTask(cds), isCdsConfig, cluster, hasXdsClient)
  /\ UNCHANGED <<h2, lb, srv, rlb, scfg, md, dl, il>>

\* watcher.onValidUpdate(update): lines 263-273, called by the xDS client for
\* a cluster the watcher is registered for
CDS_onValidUpdate ==
  /\ \E cluster \in ClusterNames :
       /\ cds.watchers[cluster] > 0
       /\ cds' = [CdsTask(cds) EXCEPT !.latestCdsUpdate = cluster,
                                      !.childCluster = cluster]
  /\ UNCHANGED <<h2, lb, srv, rlb, scfg, md, dl, il>>

\* watcher.onResourceDoesNotExist(): lines 274-277
onResourceDoesNotExist(s) ==
  LET s1 == IF s.xdsClient # NULL
            THEN removeClusterWatcher(s, s.latestConfig)
            ELSE s
  IN [s1 EXCEPT !.isWatcherActive = FALSE]

CDS_onResourceDoesNotExist ==
  /\ WatchCount(cds) > 0
  /\ cds' = onResourceDoesNotExist(CdsTask(cds))
  /\ UNCHANGED <<h2, lb, srv, rlb, scfg, md, dl, il>>

\* watcher.onTransientError(status): lines 278-289
CDS_onTransientError ==
  /\ WatchCount(cds) > 0
  /\ cds' = [CdsTask(cds) EXCEPT !.published = cds.latestCdsUpdate = NULL]
  /\ UNCHANGED <<h2, lb, srv, rlb, scfg, md, dl, il>>

\* destroy(): lines 315-320
cdsDestroy(s) ==
  LET s1 == IF s.isWatcherActive /\ s.xdsClient # NULL
            THEN removeClusterWatcher(s, s.latestConfig)
            ELSE s
  IN [s1 EXCEPT !.destroyed = TRUE, !.childCluster = NULL]

CDS_destroy ==
  /\ ~cds.destroyed
  /\ cds' = cdsDestroy(CdsTask(cds))
  /\ UNCHANGED <<h2, lb, srv, rlb, scfg, md, dl, il>>

NextCds ==
  \/ CDS_updateAddressList
  \/ CDS_onValidUpdate
  \/ CDS_onResourceDoesNotExist
  \/ CDS_onTransientError
  \/ CDS_destroy


\* ---------------------------------------------------------------------------
\* Metadata (packages/grpc-js-xds/.../ClientConfig.ts, lines 608-671)
\* ---------------------------------------------------------------------------
MaxMdOps == 3

\* Keys given to set and add: plain keys, a key in upper case, a binary key,
\* a key that is an array index, and keys LEGAL_KEY_REGEX refuses.
KeyInputs == {"a", "A", "b-bin", "1", "__proto__", "k y"}

\* LEGAL_KEY_REGEX: line 410
isLegalKey(key) == key \in {"a", "b-bin", "1", "__proto__"}

\* isBinaryKey(key): lines 424-426
isBinaryKey(key) == key = "b-bin"

\* normalizeKey(key): lines 428-430
normalizeKey(key) == IF key = "A" THEN "a" ELSE key

\* Values: a string by its characters, or a Buffer by its bytes.
StringValue(chars) == [buffer |-> FALSE, chars |-> chars, bytes |-> <<>>]
BufferValue(bytes) == [buffer |-> TRUE, chars |-> <<>>, bytes |-> bytes]

ValueInputs ==
  {StringValue(<<"v">>), StringValue(<<" ", "w", ",", "x", " ">>)}
  \cup {BufferValue(b) : b \in {<<>>, <<0>>, <<255>>, <<1, 2>>, <<255, 254, 253>>, <<0, 0, 0, 1>>}}

\* validate(key, value) throws: lines 432-453 (the strings of ValueInputs
\* are legal non-binary values)
validateThrows(key, value) ==
  \/ ~isLegalKey(key)
  \/ isBinaryKey(key) /\ ~value.buffer
  \/ ~isBinaryKey(key) /\ value.buffer

\* The Map internalRepr: its entries in insertion order.
MapHas(map, key) == \E i \in 1..Len(map) : map[i].key = key
MapIndex(map, key) == CHOOSE i \in 1..Len(map) : map[i].key = key
MapGet(map, key) == IF MapHas(map, key) THEN map[MapIndex(map, key)].values ELSE <<>>

\* Map.set(key, values): a present key keeps its place.
MapSet(map, key, values) ==
  IF MapHas(map, key)
  THEN [map EXCEPT ![MapIndex(map, key)].values = values]
  ELSE Append(map, [key |-> key, values |-> values])

\* Metadata.set(key, value): lines 486-490 (a throw leaves the object as it was)
mdSet(map, key, value) ==
  IF validateThrows(normalizeKey(key), value) THEN map
  ELSE MapSet(map, normalizeKey(key), <<value>>)

\* Metadata.add(key, value): lines 499-512
mdAdd(map, key, value) ==
  IF validateThrows(normalizeKey(key), value) THEN map
  ELSE MapSet(map, normalizeKey(key), Append(MapGet(map, normalizeKey(key)), value))

\* The base64 alphabet of Buffer.toString('base64') and Buffer.from(s, 'base64').
Base64Chars ==
  <<"A", "B", "C", "D", "E", "F", "G", "H", "I", "J", "K", "L", "M", "N", "O", "P",
     "Q", "R", "S", "T", "U", "V", "W", "X", "Y", "Z", "a", "b", "c", "d", "e", "f",
     "g", "h", "i", "j", "k", "l", "m", "n", "o", "p", "q", "r", "s", "t", "u", "v",
     "w", "x", "y", "z", "0", "1", "2", "3", "4", "5", "6", "7", "8", "9", "+", "/">>

Base64Index(c) == (CHOOSE i \in 1..64 : Base64Chars[i] = c) - 1

\* Bit k of a byte sequence, 0 past its end.
ByteBit(bytes, k) ==
  IF k > 8 * Len(bytes) THEN 0
  ELSE (bytes[(k - 1) \div 8 + 1] \div (2 ^ (7 - ((k - 1) % 8)))) % 2

\* value.toString('base64'): line 615
toBase64(bytes) ==
  LET n == (8 * Len(bytes) + 5) \div 6
      sextet(j) == 32 * ByteBit(bytes, 6 * j - 5) + 16 * ByteBit(bytes, 6 * j - 4)
                   + 8 * ByteBit(bytes, 6 * j - 3) + 4 * ByteBit(bytes, 6 * j - 2)
                   + 2 * ByteBit(bytes, 6 * j - 1) + ByteBit(bytes, 6 * j)
  IN [j \in 1..n |-> Base64Chars[sextet(j) + 1]]
       \o [j \in 1..((4 - (n % 4)) % 4) |-> "="]

\* Bit k of the data of a base64 text without its padding.
SextetBit(text, k) == (Base64Index(text[(k - 1) \div 6 + 1]) \div (2 ^ (5 - ((k - 1) % 6)))) % 2

\* Buffer.from(value, 'base64'): lines 652, 656
fromBase64(text) ==
  LET data == SelectSeq(text, LAMBDA c : c # "=")
      n == (6 * Len(data)) \div 8
      byte(i) == 128 * SextetBit(data, 8 * i - 7) + 64 * SextetBit(data, 8 * i - 6)
                 + 32 * SextetBit(data, 8 * i - 5) + 16 * SextetBit(data, 8 * i - 4)
                 + 8 * SextetBit(data, 8 * i - 3) + 4 * SextetBit(data, 8 * i - 2)
                 + 2 * SextetBit(data, 8 * i - 1) + SextetBit(data, 8 * i)
  IN [i \in 1..n |-> byte(i)]

\* Keys that are array indices, which Object.keys lists first and in
\* ascending order.
IsArrayIndex(key) == key = "1"

\* result[key] = value on the plain object result of toHttp2Headers (line
\* 612), as the sequence Object.keys gives: the key "__proto__" runs the
\* setter of Object.prototype and makes no own property; an array index key
\* goes before the other keys.
assignProperty(result, key, value) ==
  IF key = "__proto__" THEN result
  ELSE IF IsArrayIndex(key) THEN <<[key |-> key, values |-> value]>> \o result
  ELSE Append(result, [key |-> key, values |-> value])

RECURSIVE toHttp2HeadersFrom(_, _, _)
\* The forEach of toHttp2Headers from entry i on: lines 609-620
toHttp2HeadersFrom(map, i, result) ==
  IF i > Len(map) THEN result
  ELSE toHttp2HeadersFrom(map, i + 1,
         assignProperty(result, map[i].key,
           [k \in 1..Len(map[i].values) |->
              IF map[i].values[k].buffer
              THEN StringValue(toBase64(map[i].values[k].bytes))
              ELSE map[i].values[k]]))

\* Metadata.toHttp2Headers(): lines 606-623
toHttp2Headers(map) == toHttp2HeadersFrom(map, 1, <<>>)

RECURSIVE addValues(_, _, _, _)
\* values.forEach(value => result.add(key, ...)): lines 650-653, 660-663
addValues(result, key, values, k) ==
  IF k > Len(values) THEN result
  ELSE addValues(
         mdAdd(result, key,
               IF isBinaryKey(key) THEN BufferValue(fromBase64(values[k].chars))
               ELSE values[k]),
         key, values, k + 1)

RECURSIVE fromHttp2HeadersFrom(_, _, _)
\* The forEach of fromHttp2Headers from key i on, for headers whose values
\* are arrays: lines 637-669
fromHttp2HeadersFrom(headers, i, result) ==
  IF i > Len(headers) THEN result
  ELSE fromHttp2HeadersFrom(headers, i + 1,
         addValues(result, headers[i].key, headers[i].values, 1))

\* Metadata.fromHttp2Headers(headers): lines 635-671
fromHttp2Headers(headers) == fromHttp2HeadersFrom(headers, 1, <<>>)

\* A new Metadata; nothing converted yet.
MdInit == [internalRepr |-> <<>>, ops |-> 0, converted |-> FALSE, headers |-> <<>>, decoded |-> <<>>]

MD_set ==
  /\ ~md.converted
  /\ md.ops < MaxMdOps
  /\ \E key \in KeyInputs, value \in ValueInputs :
       md' = [md EXCEPT !.internalRepr = mdSet(@, key, value), !.ops = @ + 1]
  /\ UNCHANGED <<h2, lb, srv, rlb, scfg, dl, il, cds>>

MD_add ==
  /\ ~md.converted
  /\ md.ops < MaxMdOps
  /\ \E key \in KeyInputs, value \in ValueInputs :
       md' = [md EXCEPT !.internalRepr = mdAdd(@, key, value), !.ops = @ + 1]
  /\ UNCHANGED <<h2, lb, srv, rlb, scfg, dl, il, cds>>

\* Metadata.fromHttp2Headers(m.toHttp2Headers())
MD_roundTrip ==
  /\ ~md.converted
  /\ md' = [md EXCEPT !.converted = TRUE,
                      !.headers = toHttp2Headers(md.internalRepr),
                      !.decoded = fromHttp2Headers(toHttp2Headers(md.internalRepr))]
  /\ UNCHANGED <<h2, lb, srv, rlb, scfg, dl, il, cds>>

NextMetadata ==
  \/ MD_set
  \/ MD_add
  \/ MD_roundTrip

\* ---------------------------------------------------------------------------
\* Service config validation and selection (service-config.ts, in
\* packages/grpc-js/src/server.ts, lines 338-596)
\* ---------------------------------------------------------------------------
MaxNames == 2
MaxMethodConfigs == 2

\* All sequences over S of length at most n.
SeqsUpTo(S, n) == UNION {[1..k -> S] : k \in 0..n}

\* Entries of a name array: service (missing, or not a string: NULL) and
\* method (omitted: NULL).
NameInputs ==
  {[service |-> "s1", method |-> NULL], [service |-> "s1", method |-> "m1"],
   [service |-> "s2", method |-> NULL], [service |-> NULL, method |-> "m1"]}

\* Service config objects: whether loadBalancingPolicy and loadBalancingConfig
\* pass their checks, and the methodConfig array, each entry by its name array.
ServiceConfigInputs ==
  [lbValid : BOOLEAN, methodConfig : SeqsUpTo(SeqsUpTo(NameInputs, MaxNames), MaxMethodConfigs)]

\* validateName(obj): lines 392-407
validateNameThrows(obj) == obj.service = NULL

\* validateMethodConfig(obj): lines 409-445, for an entry whose other fields
\* are well-formed
validateMethodConfigThrows(obj) == \E k \in 1..Len(obj) : validateNameThrows(obj[k])

\* The uniqueness check of lines 475-486 where a name is compared only with
\* the names of its own methodConfig entry.
duplicateName_perEntry(methodConfig) ==
  \E i \in 1..Len(methodConfig) : \E k, l \in 1..Len(methodConfig[i]) :
    /\ k < l
    /\ methodConfig[i][k].service = methodConfig[i][l].service
    /\ methodConfig[i][k].method = methodConfig[i][l].method

\* The uniqueness check of lines 475-486: some name equals a name seen before
\* it, in service and in method (=== of two omitted methods holds).
duplicateName(methodConfig) ==
  \E i, j \in 1..Len(methodConfig) :
    \E k \in 1..Len(methodConfig[i]), l \in 1..Len(methodConfig[j]) :
      /\ (j < i \/ (j = i /\ l < k))
      /\ methodConfig[i][k].service = methodConfig[j][l].service
      /\ methodConfig[i][k].method = methodConfig[j][l].method

\* validateServiceConfig(obj): lines 447-488; the error thrown, or "returns"
validateServiceConfig(obj) ==
  IF ~obj.lbValid THEN "Invalid service config: invalid loadBalancingConfig"
  ELSE IF \E i \in 1..Len(obj.methodConfig) : validateMethodConfigThrows(obj.methodConfig[i])
       THEN "Invalid method config name: invalid service"
  ELSE IF duplicateName(obj.methodConfig)
       THEN "Invalid service config: duplicate name"
  ELSE "returns"

\* No function of service-config.ts has been called.
ScfgInit == [obj |-> NULL, result |-> NULL]

\* A caller hands an object to validateServiceConfig.
SCFG_validateServiceConfig ==
  /\ scfg.result = NULL
  /\ scfg' = [scfg EXCEPT !.result = validateServiceConfig(scfg.obj)]
  /\ UNCHANGED <<h2, lb, srv, rlb, md, dl, il, cds>>

InitValidate ==
  /\ h2 = H2Init
  /\ lb = LBInit
  /\ srv = SrvInit
  /\ rlb = RlbInit
  /\ md = MdInit
  /\ dl = DlInit
  /\ il = IlInit
  /\ cds = CdsInit
  /\ scfg \in [obj : ServiceConfigInputs, result : {NULL}]

MaxChoices == 2

\* os.hostname() of the client, and CLIENT_LANGUAGE_STRING: line 390
OsHostname == "host"
CLIENT_LANGUAGE_STRING == "node"

\* Canary choices of a grpc_config record: the selection fields (percentage
\* absent: <<>>; an array absent: <<NULL>>), and whether validateCanaryConfig
\* accepts the choice. Every choice
\* carries its own serviceConfig, named by the record and the position.
CanaryConfig(valid, percentage, clientHostname, clientLanguage) == [valid |-> valid, percentage |-> percentage, clientHostname |-> clientHostname, clientLanguage |-> clientLanguage]

CanaryConfigInputs ==
  {CanaryConfig(TRUE, p, h, l) :
     p \in {<<>>, <<50>>},
     h \in {<<NULL>>, <<"other">>, <<"other", OsHostname>>},
     l \in {<<NULL>>, <<"go">>, <<CLIENT_LANGUAGE_STRING>>}}
  \cup {CanaryConfig(FALSE, <<>>, <<NULL>>, <<NULL>>)}

\* The caller's percentage, a number of [0, 100).
PercentageInputs == {50, 51}

\* TXT records: one that does not start with grpc_config=, or a grpc_config=
\* record by the JSON value it holds (an array of choices, or not an array).
OtherRecord == [grpc_config |-> FALSE, isArray |-> FALSE, choices |-> <<>>]
ConfigRecord(choices) == [grpc_config |-> TRUE, isArray |-> TRUE, choices |-> choices]
NotArrayRecord == [grpc_config |-> TRUE, isArray |-> FALSE, choices |-> <<>>]

TxtRecordInputs ==
  {<<>>, <<OtherRecord>>, <<NotArrayRecord>>}
  \cup UNION {{<<ConfigRecord(c)>>, <<OtherRecord, ConfigRecord(c)>>,
               <<ConfigRecord(c), ConfigRecord(<<CanaryConfig(TRUE, <<>>, <<NULL>>, <<NULL>>)>>)>>} :
              c \in SeqsUpTo(CanaryConfigInputs, MaxChoices)}

\* Results: a value returned (null, or the serviceConfig of choice i of
\* record r) or an error thrown.
Returned(value) == [thrown |-> NULL, value |-> value]
NoResult == [thrown |-> "none", value |-> <<>>]
Thrown(message) == [thrown |-> message, value |-> <<>>]

\* The choice is discarded by the checks of lines 550-573.
discarded(config, percentage) ==
  \/ config.percentage # <<>> /\ percentage > config.percentage[1]
  \/ config.clientHostname # <<NULL>>
       /\ ~\E k \in 1..Len(config.clientHostname) : config.clientHostname[k] = OsHostname
  \/ config.clientLanguage # <<NULL>>
       /\ ~\E k \in 1..Len(config.clientLanguage) : config.clientLanguage[k] = CLIENT_LANGUAGE_STRING

RECURSIVE selectFrom(_, _, _, _)
\* The loop of validateAndSelectCanaryConfig from choice i on: lines 546-576
selectFrom(r, choices, percentage, i) ==
  IF i > Len(choices) THEN Thrown("No matching service config found")
  ELSE IF ~choices[i].valid THEN Thrown("Invalid service config choice")
  ELSE IF discarded(choices[i], percentage)
       THEN selectFrom(r, choices, percentage, i + 1)
  ELSE Returned(<<r, i>>)

\* validateAndSelectCanaryConfig that lets a later matching choice replace
\* an earlier one.
validateAndSelectCanaryConfig_last(r, record, percentage) ==
  IF ~record.isArray THEN Thrown("Invalid service config list")
  ELSE LET matching == {i \in 1..Len(record.choices) :
                          record.choices[i].valid /\ ~discarded(record.choices[i], percentage)}
       IN IF \E i \in 1..Len(record.choices) : ~record.choices[i].valid
          THEN Thrown("Invalid service config choice")
          ELSE IF matching = {} THEN Thrown("No matching service config found")
          ELSE Returned(<<r, CHOOSE i \in matching : \A j \in matching : j <= i>>)

\* validateAndSelectCanaryConfig(obj, percentage): lines 542-578, for the
\* JSON value of record r
validateAndSelectCanaryConfig(r, record, percentage) ==
  IF ~record.isArray THEN Thrown("Invalid service config list")
  ELSE selectFrom(r, record.choices, percentage, 1)

\* extractAndSelectServiceConfig(txtRecord, percentage): lines 587-596
extractAndSelectServiceConfig(txtRecord, percentage) ==
  LET found == {r \in 1..Len(txtRecord) : txtRecord[r].grpc_config}
  IN IF found = {} THEN Returned(<<>>)
     ELSE LET r == CHOOSE r \in found : \A q \in found : r <= q
          IN validateAndSelectCanaryConfig(r, txtRecord[r], percentage)

\* A caller hands TXT records to extractAndSelectServiceConfig.
SCFG_extractAndSelectServiceConfig ==
  /\ scfg.result = NoResult
  /\ scfg' = [scfg EXCEPT !.result = extractAndSelectServiceConfig(scfg.txtRecord, scfg.percentage)]
  /\ UNCHANGED <<h2, lb, srv, rlb, md, dl, il, cds>>

InitSelect ==
  /\ h2 = H2Init
  /\ lb = LBInit
  /\ srv = SrvInit
  /\ rlb = RlbInit
  /\ md = MdInit
  /\ dl = DlInit
  /\ il = IlInit
  /\ cds = CdsInit
  /\ scfg \in [txtRecord : TxtRecordInputs, percentage : PercentageInputs, result : {NoResult}]

InitTimeout ==
  /\ h2 = H2Init
  /\ lb = LBInit
  /\ srv = SrvInit
  /\ rlb = RlbInit
  /\ scfg = ScfgInit
  /\ md = MdInit
  /\ il = IlInit
  /\ cds = CdsInit
  /\ dl \in [n : TimeoutNumbers, unit : DeadlineUnits, armed : {FALSE}, timeout : {0}]

\* ---------------------------------------------------------------------------
\* Specifications
\* ---------------------------------------------------------------------------
Init ==
  /\ h2 = H2Init
  /\ lb = LBInit
  /\ srv = SrvInit
  /\ rlb = RlbInit
  /\ scfg = ScfgInit
  /\ md = MdInit
  /\ dl = DlInit
  /\ il = IlInit
  /\ cds = CdsInit

\* One Http2CallStream.
SpecH2 == Init /\ [][NextH2]_vars

\* One Http2CallStream, its sending side.
SpecH2Write == Init /\ [][NextH2Write]_vars

\* One LoadBalancingCall.
SpecLB == Init /\ [][NextLB]_vars

\* One LoadBalancingCall, its sending side.
SpecLBWrite == Init /\ [][NextLBWrite]_vars

\* One client call, of either class.
NextClient ==
  \/ (lb = LBInit /\ NextH2)
  \/ (h2 = H2Init /\ NextLB)

SpecClient == Init /\ [][NextClient]_vars

\* One server, serving one stream at a time.
SpecServer == Init /\ [][NextServer]_vars

\* The resolving load balancer alone.
SpecResolving == Init /\ [][NextResolving]_vars

\* The same, with a backoff timer that fires unless it is stopped.
SpecResolvingFair == SpecResolving /\ WF_vars(RLB_onBackoffTimer)

\* validateServiceConfig applied to one object.
SpecValidate == InitValidate /\ [][SCFG_validateServiceConfig]_vars

\* extractAndSelectServiceConfig applied to one TXT record array.
SpecSelect == InitSelect /\ [][SCFG_extractAndSelectServiceConfig]_vars

\* One Metadata object, built and converted.
SpecMetadata == Init /\ [][NextMetadata]_vars

\* The duration of the deadline timer for one grpc-timeout value.
SpecTimeout == InitTimeout /\ [][DL_receiveMetadata]_vars

\* One InterceptingListenerImpl.
SpecListener == Init /\ [][NextListener]_vars

\* One CdsLoadBalancer and the xDS client it watches clusters with.
SpecCds == Init /\ [][NextCds]_vars

\* ---------------------------------------------------------------------------
\* Properties
\* ---------------------------------------------------------------------------
H2Status(s) == s.observed[CHOOSE i \in StatusIndices(s.observed) : TRUE].arg
H2CloseStep == ~h2.closeSeen /\ h2'.closeSeen

\* C1: the listener of an Http2CallStream observes onReceiveStatus at most
\* once, never observes onReceiveMessage after it, and observes no
\* onReceiveMessage once the final status has been set.
C1_StatusOnceNoMessageAfter ==
  /\ [](/\ Cardinality(StatusIndices(h2.observed)) <= 1
        /\ \A i \in StatusIndices(h2.observed),
              j \in MessageIndices(h2.observed) : j < i)
  /\ [][h2.finalStatus # NULL
          => MessagesOf(h2'.observed) = MessagesOf(h2.observed)]_vars

\* C1 witness: the status was delivered after a message, and a message
\* decoded from the stream was dropped because the call had ended.
C1_Witness ==
  /\ H2Delivered(h2)
  /\ MessageIndices(h2.observed) # {}
  /\ h2.decoded > Len(MessagesOf(h2.observed))
  /\ h2.readFilter = EndOfStream
  /\ h2.cancelCalls > 0

\* C2: the listener of a LoadBalancingCall observes onReceiveStatus at most
\* once and never observes onReceiveMessage after onReceiveStatus (stated
\* for the calls that had not ended when their child call was created).
C2_StatusOnceNoMessageAfter ==
  (~lb.authorizationConflict /\ ~lb.cancelledWhileSuspended)
    => /\ Cardinality(StatusIndices(lb.observed)) <= 1
       /\ \A i \in StatusIndices(lb.observed),
             j \in MessageIndices(lb.observed) : j < i

C4_CloseAfterTrailersKeepsStatus ==
  [][(H2CloseStep /\ h2.trailersStatus # NULL /\ ~H2Delivered(h2))
       => h2'.finalStatus = h2.finalStatus]_vars

C6_NoChildAfterCancelWhileSuspended ==
  lb.cancelledWhileSuspended
    => lb.child = NULL /\ lb.createCalls = 0 /\ lb.onCallStartedCalls = 0

\* C7: the listener of an Http2CallStream observes onReceiveMetadata before
\* any onReceiveMessage, the messages in the order in which they were
\* decoded, and onReceiveStatus only after the last message.
C7_MetadataMessagesStatusOrder ==
  /\ \A j \in MessageIndices(h2.observed) :
       \E i \in MetadataIndices(h2.observed) : i < j
  /\ \A n \in 1..Len(MessagesOf(h2.observed)) :
       MessagesOf(h2.observed)[n].arg = n
  /\ \A i \in StatusIndices(h2.observed),
        j \in MessageIndices(h2.observed) : j < i

\* C7 witness: every decoded message went through both buffers' worth of
\* traffic and was delivered, in order, between metadata and status.
C7_Witness ==
  /\ h2.decoded = MaxMsgs
  /\ Len(MessagesOf(h2.observed)) = MaxMsgs
  /\ H2Delivered(h2)
  /\ MetadataIndices(h2.observed) # {}

\* C8: when the listener of an Http2CallStream has received status OK, no
\* receive filter is in flight and the application has called startRead since
\* the last message it was given, every message decoded from the stream has
\* been delivered.
C8_OkStatusAfterEveryMessage ==
  (/\ H2Delivered(h2)
   /\ H2Status(h2) = "OK"
   /\ h2.readFilter = EndOfStream
   /\ h2.readOutstanding)
    => Len(MessagesOf(h2.observed)) = h2.decoded

\* C9: in a call that has not ended, doPick ends the call with the pick's
\* status and progress DROP on DROP, with the pick's status and progress
\* PROCESSED on TRANSIENT_FAILURE without waitForReady, and re-enqueues the
\* call without ending it on TRANSIENT_FAILURE with waitForReady and on QUEUE.
C9_PickReactions ==
  LET pick == lb.lastPick
      endedWith(progress) ==
        /\ lb.ended
        /\ ~lb.queued
        /\ Len(lb.observed) > 0
        /\ lb.observed[Len(lb.observed)] = EvStatus(pick.status)
        /\ lb.progress = progress
      requeued ==
        /\ ~lb.ended
        /\ lb.queued
        /\ StatusIndices(lb.observed) = {}
  IN /\ pick.pickResultType = "DROP" => endedWith("DROP")
     /\ (pick.pickResultType = "TRANSIENT_FAILURE"
           /\ ~lb.metadata.waitForReady) => endedWith("PROCESSED")
     /\ (pick.pickResultType = "TRANSIENT_FAILURE"
           /\ lb.metadata.waitForReady) => requeued
     /\ pick.pickResultType = "QUEUE" => requeued

\* C9 witness: a call with waitForReady was re-enqueued by a
\* TRANSIENT_FAILURE pick.
C9_Witness ==
  /\ lb.lastPick.pickResultType = "TRANSIENT_FAILURE"
  /\ lb.metadata.waitForReady
  /\ lb.queued

\* C10: when the merged metadata holds more than one authorization value the
\* call ends and no child call is created for it.
C10_AuthorizationConflictCreatesNoCall ==
  lb.authorizationConflict
    => lb.ended /\ lb.child = NULL /\ lb.createCalls = 0

\* C11: a rejection of the receive-message filter ends a call that has no
\* settled non-OK status with code INTERNAL, whatever code the rejection
\* carries, in Http2CallStream and in LoadBalancingCall.
C11_ReceiveFilterRejectionIsInternal ==
  [][/\ (H2_receiveMessageRejected /\ ~H2Delivered(h2)
           /\ h2.finalStatus \in {NULL, "OK"})
          => h2'.finalStatus = "INTERNAL"
     /\ (LB_receiveMessageRejected /\ ~lb.ended)
          => lb'.observed = Append(lb.observed, EvStatus("INTERNAL"))]_vars

\* ---------------------------------------------------------------------------
\* Properties of the server
\* ---------------------------------------------------------------------------
TrailersOf(wire) == SelectSeq(wire, LAMBDA f : f.frame = "TRAILERS")

\* C12: a request on a started server whose :path has no registered handler
\* is ended with status UNIMPLEMENTED and details "The server does not
\* implement this method", in the call's status and in the trailers sent.
C12_NoHandlerIsUnimplemented ==
  LET unimplemented ==
        ServerStatus("UNIMPLEMENTED", "The server does not implement this method")
  IN srv.lookupFailed
       => /\ srv.status = unimplemented
          /\ \A i \in 1..Len(TrailersOf(srv.wire)) :
               /\ TrailersOf(srv.wire)[i].code = unimplemented.code
               /\ TrailersOf(srv.wire)[i].details = unimplemented.details

\* A grpc-timeout value that is, as a whole, 1 to 8 digits, optional white
\* space and one unit letter.
WholeTimeoutForm(v) ==
  \E d \in 1..8, w \in 0..Len(v) :
    /\ d + w + 1 = Len(v)
    /\ \A k \in 1..d : IsDigit(v[k])
    /\ \A k \in (d + 1)..(d + w) : IsSpace(v[k])
    /\ IsUnit(v[Len(v)])

\* C13: for a request with a grpc-timeout value on a path with a unary or
\* server-streaming handler, the server arms the deadline timer only when
\* the value has the whole form, and ends the call with OUT_OF_RANGE when
\* it has not.
C13_InvalidTimeoutIsOutOfRange ==
  [][\A path \in ServicePaths, rawTimeout \in TimeoutHeaderInputs :
       (/\ SRV_streamStep(path, rawTimeout)
        /\ srv.started
        /\ srv.handlers[path].type \in {"unary", "serverStream"}
        /\ Len(rawTimeout) > 0)
         => LET value == srv'.timeoutHeader[1]
            IN /\ srv'.deadline = "armed" => WholeTimeoutForm(value)
               /\ ~WholeTimeoutForm(value)
                    => /\ srv'.status.code = "OUT_OF_RANGE"
                       /\ srv'.streamEnded]_vars

\* C14: when a unary handler completes a call that is neither cancelled nor
\* ended with an error, the call's status, which the trailers then carry, is
\* INTERNAL with the error's message when the error has no integer code, and
\* the error's code (with its details, when it has any) otherwise.
C14_HandlerErrorStatus ==
  [][\A err \in HandlerErrors, serializeThrows \in BOOLEAN :
       (/\ SC_callbackStep(err, serializeThrows)
        /\ ~srv.cancelled
        /\ ~srv.streamEnded
        /\ srv.stream = "open")
         => /\ err.code = NULL
                 => srv'.status = ServerStatus("INTERNAL", err.message)
            /\ err.code # NULL
                 => srv'.status =
                      ServerStatus(err.code,
                                   IF err.details # NULL
                                   THEN err.details ELSE err.message)]_vars

\* A step in which the handler operates on the call: sendMetadata, the unary
\* callback (sendUnaryMessage, sendError), write or end.
HandlerOperation ==
  \/ SC_sendMetadata
  \/ SC_sendUnaryMessage
  \/ SC_write
  \/ SC_end

HeadersOnceAndFirst(wire) ==
  /\ Cardinality({i \in 1..Len(wire) : wire[i].frame = "HEADERS"}) <= 1
  /\ \A i \in 1..Len(wire) :
       wire[i].frame # "HEADERS"
         => \E j \in 1..(i - 1) : wire[j].frame = "HEADERS"

\* C16: on a server call the response headers are sent once and before any
\* DATA frame or trailers, and the first of sendMetadata, write and end that
\* the handler performs on a live call emits them.
C16_HeadersOnceBeforeData ==
  [][/\ HeadersOnceAndFirst(srv'.wire)
     /\ (/\ SC_sendMetadata \/ SC_write \/ SC_end
         /\ ~srv.headersSent
         /\ ~srv.cancelled
         /\ srv.stream = "open")
          => /\ Len(srv.wire) = 0
             /\ Len(srv'.wire) > 0
             /\ srv'.wire[1] = HeadersFrame]_vars

\* C16 witness: a server-streaming handler performed sendMetadata, write and
\* end; the wire holds the headers, one DATA frame and the trailers.
C16_Witness ==
  /\ srv.handler.type = "serverStream"
  /\ srv.handlerOps = MaxHandlerOps
  /\ srv.writableEnded
  /\ Len(srv.wire) = 3
  /\ srv.wire[1] = HeadersFrame
  /\ srv.wire[2] = DataFrame
  /\ srv.wire[3] = Frame("TRAILERS", "OK", "OK")

\* C17: registering a handler for a path that already has one returns false
\* and leaves the handlers as they are; for a path that has none it returns
\* true and stores the handler. addService on a server that is not started
\* throws when one of its methods is refused, and never changes a handler
\* that was registered before.
C17_DuplicateRegistrationFails ==
  [][/\ \A name \in ServicePaths, handler \in HandlerFuncs, type \in HandlerTypes :
          SRV_registerStep(name, handler, type)
            => IF srv.handlers[name] # NoHandler
               THEN /\ srv'.registerResult = "false"
                    /\ srv'.handlers = srv.handlers
               ELSE /\ srv'.registerResult = "true"
                    /\ srv'.handlers[name] = [func |-> handler, type |-> type]
     /\ \A service \in Services :
          (SRV_addServiceStep(service) /\ ~srv.started)
            => /\ \A name \in ServicePaths :
                    srv.handlers[name] # NoHandler
                      => srv'.handlers[name] = srv.handlers[name]
               /\ srv'.addServiceResult = "throws"
                    <=> \E i \in 1..Len(service) :
                          \/ srv.handlers[service[i].path] # NoHandler
                          \/ \E j \in 1..(i - 1) :
                               service[j].path = service[i].path]_vars

\* C17 witness: a registration was refused and the path still has a handler.
C17_Witness ==
  /\ srv.registerResult = "false"
  /\ srv.addServiceResult = "throws"
  /\ ~srv.started
  /\ \E name \in ServicePaths : srv.handlers[name] \in Handlers

\* C18: on a started server the handler registered for the path of a request
\* is invoked, for each of the four method types: a server-streaming or bidi
\* handler as soon as the stream arrives, a unary or client-streaming handler
\* once the request has been collected (when the request ends and
\* deserializes on a call that is neither cancelled nor ended).
C18_RegisteredHandlerIsInvoked ==
  [][/\ \A path \in ServicePaths, rawTimeout \in TimeoutHeaderInputs :
          (/\ SRV_streamStep(path, rawTimeout)
           /\ srv.started
           /\ srv.handlers[path] # NoHandler
           /\ Len(rawTimeout) = 0)
            => IF srv.handlers[path].type \in {"serverStream", "bidi"}
               THEN srv'.handlerCalls = 1
               ELSE srv'.receiving /\ srv'.status.code = "OK"
     /\ (/\ SC_requestEndStep(FALSE)
         /\ ~srv.cancelled
         /\ ~srv.streamEnded
         /\ srv.handler.type \in {"unary", "clientStream"})
          => srv'.handlerCalls = 1]_vars

\* ---------------------------------------------------------------------------
\* Properties of the resolving load balancer
\* ---------------------------------------------------------------------------
\* What the claims of the service-config table say of one resolver result that
\* keeps the remembered config: the child got the new endpoints under that
\* config, onSuccessfulResolution got the config, and no failure went out.
KeepsUsing(s, config, endpointList, selectorGiven) ==
  /\ s.workingServiceConfig = config
  /\ s.childEndpoints = endpointList
  /\ s.childLbConfig = selectLbConfigFromList(config.lb)
  /\ s.childLbConfig # NULL
  /\ s.succeeded = <<<<config, selectorGiven>>>>
  /\ s.failed = <<>>
  /\ s.published = <<>>

C20_FailureWithoutPreviousIsSurfaced ==
  [][\A endpointList \in EndpointLists, serviceConfigError \in ResolverErrors, selectorGiven \in BOOLEAN :
       (/\ rlb.previousServiceConfig = NoServiceConfig
        /\ RLB_resolutionStep(endpointList, NoServiceConfig, serviceConfigError, selectorGiven)) =>
         /\ \E i \in 1..Len(rlb'.published) :
              rlb'.published[i] = <<"TRANSIENT_FAILURE", UnavailablePicker(serviceConfigError)>>
         /\ rlb'.failed = <<serviceConfigError>>]_vars

\* C21: when the working service config's loadBalancingConfig list holds no
\* supported policy, the resolver result makes the load balancer report
\* UNAVAILABLE "All load balancer options in service config are not
\* compatible" to the channel, leaves the child policy without the update and
\* does not call onSuccessfulResolution, whatever state it is in.
C21_NoSupportedPolicyIsReported ==
  [][\A endpointList \in EndpointLists, serviceConfig \in ResolverServiceConfigs \cup {NoServiceConfig}, serviceConfigError \in ResolverErrors \cup {NULL}, selectorGiven \in BOOLEAN :
       (/\ RLB_resolutionStep(endpointList, serviceConfig, serviceConfigError, selectorGiven)
        /\ selectLbConfigFromList(rlb'.workingServiceConfig.lb) = NULL) =>
         /\ \E i \in 1..Len(rlb'.published) :
              rlb'.published[i] = <<"TRANSIENT_FAILURE", UnavailablePicker(IncompatibleLbError)>>
         /\ rlb'.failed = <<IncompatibleLbError>>
         /\ rlb'.childEndpoints = rlb.childEndpoints
         /\ rlb'.childLbConfig = rlb.childLbConfig
         /\ rlb'.succeeded = <<>>]_vars

\* C22: after destroy() no state is given to channelControlHelper.updateState,
\* also when a resolver result or error that was under way arrives afterwards.
C22_NoUpdateStateAfterDestroy ==
  rlb.destroyed => rlb.published = <<>>

\* ---------------------------------------------------------------------------
\* Properties of the service config functions
\* ---------------------------------------------------------------------------
\* The positions of the name entries of a methodConfig array.
NamePositions(methodConfig) ==
  {p \in (1..Len(methodConfig)) \X (1..MaxNames) : p[2] <= Len(methodConfig[p[1]])}

\* Two name entries anywhere in the config hold the same (service, method).
SamePairTwice(methodConfig) ==
  \E p, q \in NamePositions(methodConfig) :
    /\ p # q
    /\ methodConfig[p[1]][p[2]] = methodConfig[q[1]][q[2]]

\* The object passes every check other than the uniqueness of names.
WellFormedConfig(obj) ==
  /\ obj.lbValid
  /\ \A p \in NamePositions(obj.methodConfig) :
       obj.methodConfig[p[1]][p[2]].service # NULL

\* C23: validateServiceConfig throws for every config in which two name
\* entries, anywhere in the config, hold the same (service, method), two
\* entries without method for one service included, and returns for a
\* well-formed config whose pairs are all distinct.
C23_DuplicateNamesRejected ==
  scfg.result # NULL =>
    /\ SamePairTwice(scfg.obj.methodConfig) => scfg.result # "returns"
    /\ (WellFormedConfig(scfg.obj) /\ ~SamePairTwice(scfg.obj.methodConfig))
         => scfg.result = "returns"

\* A config was rejected for two entries, in different methodConfig elements,
\* that name service s1 without a method.
C23_Witness ==
  /\ scfg.result = "Invalid service config: duplicate name"
  /\ scfg.obj.methodConfig =
       << <<[service |-> "s1", method |-> NULL]>>,
          <<[service |-> "s1", method |-> "m1"], [service |-> "s1", method |-> NULL]>> >>

\* What the claim calls skipped: percentage present and exceeded by the
\* caller's percentile, clientHostname present without the OS hostname, or
\* clientLanguage present without the language tag.
Skipped(choice, percentile) ==
  \/ choice.percentage # <<>> /\ percentile > choice.percentage[1]
  \/ choice.clientHostname # <<NULL>>
       /\ OsHostname \notin {choice.clientHostname[k] : k \in 1..Len(choice.clientHostname)}
  \/ choice.clientLanguage # <<NULL>>
       /\ CLIENT_LANGUAGE_STRING \notin {choice.clientLanguage[k] : k \in 1..Len(choice.clientLanguage)}

\* The first grpc_config= record of the input (0: none).
FirstConfigRecord(txtRecord) ==
  IF \E r \in 1..Len(txtRecord) : txtRecord[r].grpc_config
  THEN CHOOSE r \in 1..Len(txtRecord) :
         /\ txtRecord[r].grpc_config
         /\ \A q \in 1..(r - 1) : ~txtRecord[q].grpc_config
  ELSE 0

\* C24: for TXT records whose first grpc_config= record holds an array of
\* valid choices, extractAndSelectServiceConfig returns the serviceConfig of
\* the first choice, in array order, that is not skipped, and throws when
\* every choice is skipped.
C24_FirstMatchingChoiceWins ==
  LET r == FirstConfigRecord(scfg.txtRecord)
      choices == scfg.txtRecord[r].choices
      kept == {i \in 1..Len(choices) : ~Skipped(choices[i], scfg.percentage)}
  IN (/\ scfg.result # NoResult
      /\ r # 0
      /\ scfg.txtRecord[r].isArray
      /\ \A i \in 1..Len(choices) : choices[i].valid) =>
       IF kept = {}
       THEN scfg.result.thrown # NULL
       ELSE \E i \in kept :
              /\ \A j \in kept : i <= j
              /\ scfg.result = Returned(<<r, i>>)

\* The second choice of the second record was returned: the first record is
\* not a grpc_config= record and the first choice is skipped on percentage.
C24_Witness ==
  /\ Len(scfg.txtRecord) = 2
  /\ scfg.result = Returned(<<2, 2>>)
  /\ scfg.txtRecord[2].choices[1].percentage = <<50>>
  /\ scfg.txtRecord[2].choices[1].clientHostname = <<"other", OsHostname>>
  /\ scfg.txtRecord[2].choices[1].clientLanguage = <<NULL>>
  /\ scfg.percentage = 51

\* ---------------------------------------------------------------------------
\* Properties of Metadata
\* ---------------------------------------------------------------------------
\* C25: a Metadata built through set and add comes back from
\* fromHttp2Headers(toHttp2Headers()) with the same keys, each with the same
\* values in the same order, binary keys with several values included.
C25_MetadataRoundTrip ==
  md.converted =>
    \A key \in KeyInputs : MapGet(md.decoded, key) = MapGet(md.internalRepr, key)

\* ---------------------------------------------------------------------------
\* Properties of the sending side of the client calls
\* ---------------------------------------------------------------------------
\* Message m was given to the stream before position i of its writes.
WrittenBefore(writes, m, i) == \E j \in 1..(i - 1) : writes[j] = m

\* C26: the http2 stream of an Http2CallStream is not ended before every
\* message whose send was requested before the half-close has been written to
\* it, whether the stream was attached before or after the requests.
C26_NoEndBeforePendingMessage ==
  \A i \in 1..Len(h2.streamWrites) :
    h2.streamWrites[i] = EndOfStream =>
      \A m \in 1..h2.sends : WrittenBefore(h2.streamWrites, m, i)

\* C27: for a single writer, halfClose is called on the child of a
\* LoadBalancingCall at most once and after every message passed to
\* sendMessageWithContext before the half-close was handed to the child,
\* and a message filtered before the child existed is the first call the
\* child gets.
C27_HalfCloseAfterMessages ==
  /\ Cardinality({i \in 1..Len(lb.childCalls) : lb.childCalls[i] = EndOfStream}) <= 1
  /\ \A i \in 1..Len(lb.childCalls) :
       lb.childCalls[i] = EndOfStream =>
         \A m \in 1..lb.sends : WrittenBefore(lb.childCalls, m, i)
  /\ (lb.child # NULL /\ lb.pendingMessage # 0) =>
       (lb.childCalls # <<>> /\ lb.childCalls[1] = lb.pendingMessage)

\* A message that left the filter before the child existed and a half-close
\* requested meanwhile reached the child in this order when it was created.
C27_Witness ==
  /\ lb.pendingMessage = 1
  /\ lb.pendingHalfClose
  /\ lb.childCalls = <<1, EndOfStream>>

\* ---------------------------------------------------------------------------
\* Properties of the pick of a LoadBalancingCall
\* ---------------------------------------------------------------------------

\* The task created the child call.
ChildCreated == lb'.createCalls # lb.createCalls

\* The task is the credentials continuation and found the picked subchannel
\* in another state than READY.
FoundNotReady == lb'.subchannelState \notin {NULL, "READY"}

\* The call had ended when the continuation came to its retry: it was ended
\* before the task, or the task's authorization check ended it.
EndedBeforeRetry == lb.ended \/ lb'.authorizationConflict

\* C28 as stated: a child call is created only on a subchannel that is READY
\* when the credentials metadata arrives; when it is not READY no child is
\* created and another pick is requested from the channel.  Stated for the
\* continuations whose authorization check passes.
C28_ReadyAtCreation ==
  [][/\ ChildCreated => lb'.subchannelState = "READY"
     /\ (FoundNotReady /\ ~lb'.authorizationConflict) =>
          (~ChildCreated /\ lb'.lastPick # NoPick)]_vars

\* C28, amended: a child call is created only on a subchannel that is READY
\* when the credentials metadata arrives; when it is not READY no child is
\* created, and another pick is requested from the channel exactly when the
\* call has not ended by then.
C28_ReadyAtCreationRetryWhileLive ==
  [][/\ ChildCreated => lb'.subchannelState = "READY"
     /\ FoundNotReady =>
          /\ ~ChildCreated
          /\ lb'.lastPick # NoPick <=> ~EndedBeforeRetry]_vars

\* The picked subchannel was found in IDLE, no child call was created and the
\* channel was asked for another pick, which queued the call.
C28_Witness ==
  /\ lb.subchannelState = "IDLE"
  /\ lb.createCalls = 0
  /\ lb.lastPick.pickResultType = "QUEUE"
  /\ lb.queued
  /\ ~lb.ended

\* ---------------------------------------------------------------------------
\* Properties of the subchannel references of Http2CallStream
\* ---------------------------------------------------------------------------

\* Positions of a call in the log of the calls made on the subchannel.
SubchannelCallIndices(s, call) ==
  {i \in 1..Len(s.subchannelCalls) : s.subchannelCalls[i] = call}

\* The references as they stand in one state.
ReferencesBalanced(s) ==
  LET refs == SubchannelCallIndices(s, "callRef")
      unrefs == SubchannelCallIndices(s, "callUnref")
      removals == SubchannelCallIndices(s, "removeDisconnectListener")
  IN /\ Cardinality(refs) <= 1
     /\ Cardinality(unrefs) <= 1
     /\ Cardinality(removals) <= 1
     /\ \A u \in unrefs \cup removals : \E r \in refs : r < u
     /\ refs # {} => s.streamOffered
     /\ (s.streamOffered /\ refs = {}) => (s.statusOutput /\ s.streamCancelled)
     /\ (unrefs # {} \/ removals # {}) => s.statusOutput
     /\ (s.statusOutput /\ refs # {}) => (unrefs # {} /\ removals # {})

\* C29: callRef is taken at most once, by attachHttp2Stream and only on a call
\* that has not ended (a call that ended before takes no reference and the
\* stream is closed with CANCEL); callUnref and the removal of the disconnect
\* listener happen at most once, after callRef, in the step that outputs the
\* final status.
C29_ReferencesBalanced ==
  /\ []ReferencesBalanced(h2)
  /\ [][/\ h2'.subchannelCalls # h2.subchannelCalls =>
             \/ /\ h2.finalStatus = NULL
                /\ ~h2.streamOffered /\ h2'.streamOffered
                /\ h2'.subchannelCalls = h2.subchannelCalls \o <<"addDisconnectListener", "callRef">>
             \/ /\ ~h2.statusOutput /\ h2'.statusOutput
                /\ h2'.subchannelCalls = h2.subchannelCalls \o <<"callUnref", "removeDisconnectListener">>
        /\ (~h2.statusOutput /\ h2'.statusOutput /\ h2.subchannel # NULL) =>
             h2'.subchannelCalls # h2.subchannelCalls]_vars

\* A call that was attached and has output its status gave its reference
\* back, and a call that had ended when the stream came took none.
C29_Witness ==
  /\ h2.statusOutput
  /\ h2.subchannelCalls = <<"addDisconnectListener", "callRef", "callUnref", "removeDisconnectListener">>
  /\ h2.callRefs = 0

C29_WitnessEndedBeforeAttach ==
  /\ h2.streamOffered
  /\ h2.streamCancelled
  /\ h2.subchannelCalls = <<>>

\* ---------------------------------------------------------------------------
\* Properties of the delivery of the status
\* ---------------------------------------------------------------------------

\* The step is a call the application makes on one of the two call objects.
ClientApiCall ==
  \/ H2_start \/ H2_startRead \/ H2_cancelWithStatus
  \/ LB_start \/ LB_startRead \/ LB_cancelWithStatus

\* The step is a callback the transport runs on an Http2CallStream.
TransportCallback ==
  \/ H2_attachHttp2Stream \/ H2_onResponse \/ H2_onTrailers \/ H2_onData
  \/ H2_onEnd \/ H2_onClose \/ H2_disconnectListener

\* The step calls no listener's onReceiveStatus.
NoStatusDelivered ==
  /\ StatusIndices(h2'.observed) = StatusIndices(h2.observed)
  /\ StatusIndices(lb'.observed) = StatusIndices(lb.observed)

\* C30: neither call object calls its listener's onReceiveStatus in the task
\* of an API call of the application or of a transport callback; the status
\* is delivered by a later task.
C30_StatusOnLaterTick ==
  [][(ClientApiCall \/ TransportCallback) => NoStatusDelivered]_vars

\* The same for Http2CallStream alone, whose outputStatus queues the call of
\* onReceiveStatus with process.nextTick.
H2StatusOnLaterTick ==
  [][(H2_start \/ H2_startRead \/ H2_cancelWithStatus \/ TransportCallback) =>
       StatusIndices(h2'.observed) = StatusIndices(h2.observed)]_vars

\* ---------------------------------------------------------------------------
\* Properties of the backoff of the resolving load balancer
\* ---------------------------------------------------------------------------

\* What updateState publishes for the last child state and picker.
RepublishedChild(s) ==
  <<s.latestChildState,
    IF s.latestChildState = "IDLE"
    THEN [s.latestChildPicker EXCEPT !.exitIdle = TRUE]
    ELSE s.latestChildPicker>>

\* exitIdle and requestReresolution during backoff: nothing but the flag.
OnlySetsContinueResolving ==
  /\ rlb'.resolverCalls = 0
  /\ \/ rlb' = RlbTask(rlb)
     \/ rlb' = [RlbTask(rlb) EXCEPT !.continueResolving = TRUE]

\* The timer fires: one call of the resolver and the flag cleared, or the
\* last child state published again.
TimerServesRequest ==
  IF rlb.continueResolving
  THEN rlb'.resolverCalls = 1 /\ ~rlb'.continueResolving
  ELSE rlb'.resolverCalls = 0 /\ rlb'.published = <<RepublishedChild(rlb)>>

\* C31: while the backoff timer is running exitIdle and requestReresolution
\* only set continueResolving; the firing timer asks the resolver once when
\* the flag is set and clears it, and publishes the last child state again
\* otherwise; the resolver is not asked while the timer is running, and a
\* request made during backoff is served when the timer fires.
C31_BackoffDefersResolution ==
  /\ [][/\ ((RLB_exitIdle \/ RLB_requestReresolution) /\ rlb.backoffRunning) =>
             OnlySetsContinueResolving
        /\ RLB_onBackoffTimer => TimerServesRequest
        /\ rlb'.resolverCalls > 0 => (~rlb.backoffRunning \/ RLB_onBackoffTimer)
        /\ rlb'.resolverCalls <= 1]_vars
  /\ [](rlb.continueResolving => rlb.backoffRunning)
  /\ (rlb.continueResolving ~> (rlb.resolverCalls > 0 \/ rlb.destroyed))

\* A request made during backoff was served by the timer that fired.
C31_Witness ==
  /\ rlb.resolverCalls = 1
  /\ rlb.backoffRunning
  /\ ~rlb.continueResolving
  /\ rlb.published = <<>>
  /\ rlb.currentState = "TRANSIENT_FAILURE"

\* ---------------------------------------------------------------------------
\* Properties of the deadline of a server call
\* ---------------------------------------------------------------------------

\* C32: the deadline timer of an accepted grpc-timeout value n<unit> is armed
\* with a non-negative duration that is the integer part of n times the
\* unit's millisecond factor.
C32_TimeoutIsProduct ==
  dl.armed =>
    /\ dl.timeout >= 0
    /\ Limbs(dl.timeout) = DurationLimbs(dl.n, dl.unit)

\* ---------------------------------------------------------------------------
\* Properties of the response headers of a server call
\* ---------------------------------------------------------------------------

\* C33: the response headers of a call hold, beside the fixed defaults, only
\* keys of the custom metadata given to sendMetadata for that call.
C33_ResponseHeadersOfThisCall ==
  srv.responseHeaders \subseteq srv.customMetadata

\* ---------------------------------------------------------------------------
\* Properties of the pick callbacks of a LoadBalancingCall
\* ---------------------------------------------------------------------------

\* C34: onCallEnded is never invoked without onCallStarted before it, each
\* at most once, and a call that has ended and for which onCallStarted was
\* invoked has had onCallEnded invoked (a call that has ended outputs no
\* other status, so that onCallEnded cannot be invoked later).
C34_CallbacksPaired ==
  /\ lb.onCallStartedCalls <= 1
  /\ lb.onCallEndedCalls <= lb.onCallStartedCalls
  /\ lb.ended => lb.onCallEndedCalls = lb.onCallStartedCalls

\* ---------------------------------------------------------------------------
\* Properties of one resolver result
\* ---------------------------------------------------------------------------

\* C35: a resolver result for which onFailedResolution is called is not also
\* given to onSuccessfulResolution, and the child policy is not updated with
\* it.
C35_FailureOrSuccess ==
  [][\A endpointList \in EndpointLists, serviceConfig \in ResolverServiceConfigs \cup {NoServiceConfig}, serviceConfigError \in ResolverErrors \cup {NULL}, selectorGiven \in BOOLEAN :
       (/\ RLB_resolutionStep(endpointList, serviceConfig, serviceConfigError, selectorGiven)
        /\ rlb'.failed # <<>>) =>
         /\ rlb'.succeeded = <<>>
         /\ rlb'.childEndpoints = rlb.childEndpoints
         /\ rlb'.childLbConfig = rlb.childLbConfig]_vars

\* C36: the remembered previous service config is one that was applied: a
\* config for which selectLbConfigFromList finds no supported policy is never
\* remembered as previous.
C36_PreviousWasApplied ==
  rlb.previousServiceConfig # NoServiceConfig =>
    selectLbConfigFromList(rlb.previousServiceConfig.lb) # NULL

\* ---------------------------------------------------------------------------
\* Properties of InterceptingListenerImpl
\* ---------------------------------------------------------------------------

\* C37: the next listener receives onReceiveStatus at most once, and when it
\* does it has received every message the listener had accepted.
C37_StatusOnceAfterMessages ==
  /\ Cardinality(StatusIndices(il.forwarded)) <= 1
  /\ \A i \in StatusIndices(il.forwarded) :
       \A m \in 1..il.accepted :
         \E j \in 1..(i - 1) : il.forwarded[j] = EvMessage(m)

\* ---------------------------------------------------------------------------
\* Properties of the cluster watcher of CdsLoadBalancer
\* ---------------------------------------------------------------------------

\* C38: the xDS client holds at most one registration of the watcher, under
\* the cluster name of the latest accepted config, and none after destroy().
C38_OneWatcherOfLatestCluster ==
  /\ WatchCount(cds) <= 1
  /\ \A c \in ClusterNames : cds.watchers[c] > 0 => c = cds.latestConfig
  /\ cds.destroyed => WatchCount(cds) = 0

\* ---------------------------------------------------------------------------
\* Properties of the cancellation of a server call
\* ---------------------------------------------------------------------------

\* C39: a server call emits 'cancelled' at most once, and the deadline timer
\* of a call that is cancelled or whose stream was ended is not armed.
C39_CancelledOnceTimerCleared ==
  /\ Len(srv.cancelledEvents) <= 1
  /\ (srv.cancelled \/ srv.streamEnded) => srv.deadline # "armed"

\* ---------------------------------------------------------------------------
\* Properties of a call whose grpc-timeout is invalid
\* ---------------------------------------------------------------------------

\* C40: when receiveMetadata has ended the call for an invalid grpc-timeout,
\* the method handler is never invoked for the call and no frame follows the
\* trailers on the stream.
C40_RejectedCallStaysSilent ==
  srv.deadlineRejected =>
    /\ srv.handlerCalls = 0
    /\ \A i \in 1..Len(srv.wire) :
         srv.wire[i].frame = "TRAILERS" => i = Len(srv.wire)

====
